---- MODULE Spec2Model ----
(***************************************************************************)
(* cli-profile-manager: the profile snapshot/restore engine of the Claude  *)
(* and GitHub Copilot providers (pattern matcher, snapshot writer,         *)
(* snapshot restorer) and the publish orchestration, as a state machine    *)
(* over finite directory trees.                                            *)
(*                                                                         *)
(* A directory tree is a function from the paths that exist in it to       *)
(* "dir" or to the bytes of a file; a path is a sequence of entry names    *)
(* and <<>> is the root, so the tree with the empty domain is a directory  *)
(* that does not exist.                                                    *)
(***************************************************************************)
EXTENDS Integers, Sequences, FiniteSets, TLC

VARIABLES
    provider,    \* "claude" | "github": which provider's engine runs
    sep,         \* path.sep of the host: "/" (POSIX) or "\\" (Windows)
    configDir,   \* the live configuration directory (claudeDir / githubDir)
    profileDir,  \* the stored profile's directory (<profilesDir>/<name>)
    metadata,    \* parsed content of profileDir/profile.json (NoMeta if none)
    scratchDir,  \* a second, initially fresh, restore target
    backupDir,   \* the backupDir handed to the running / last extractSnapshot
    pc,          \* position inside extractSnapshot, "idle" between operations
    call,        \* the running / last operation: name, arguments, error
    pre,         \* the directories as they were when that operation began
    archive,     \* result and file-system accesses of the last getFilesToArchive
    pub          \* state of one publishProfile invocation

fsVars == <<configDir, profileDir, metadata, scratchDir, backupDir, pc, call, pre>>
vars == <<provider, sep, configDir, profileDir, metadata, scratchDir, backupDir,
          pc, call, pre, archive, pub>>

-----------------------------------------------------------------------------
(* Strings (String.prototype.startsWith / endsWith / slice / split / join) *)

StartsWith(s, p) == Len(s) >= Len(p) /\ SubSeq(s, 1, Len(p)) = p

EndsWith(s, p) == Len(s) >= Len(p) /\ SubSeq(s, Len(s) - Len(p) + 1, Len(s)) = p

\* s.slice(0, -n)
DropLast(s, n) == SubSeq(s, 1, Len(s) - n)

\* s.slice(n)
DropFirst(s, n) == SubSeq(s, n + 1, Len(s))

\* s.split(from).join(to), for a one-character separator `from`
RECURSIVE ReplaceFrom(_, _, _, _)
ReplaceFrom(s, from, to, i) ==
    IF i > Len(s) THEN ""
    ELSE (IF SubSeq(s, i, i) = from THEN to ELSE SubSeq(s, i, i))
             \o ReplaceFrom(s, from, to, i + 1)

SplitJoin(s, from, to) == ReplaceFrom(s, from, to, 1)

\* s.split(d): the sequence of segments of s between occurrences of d
RECURSIVE SplitFrom(_, _, _, _)
SplitFrom(s, d, i, cur) ==
    IF i > Len(s) THEN <<cur>>
    ELSE IF SubSeq(s, i, i) = d THEN <<cur>> \o SplitFrom(s, d, i + 1, "")
    ELSE SplitFrom(s, d, i + 1, cur \o SubSeq(s, i, i))

Split(s, d) == SplitFrom(s, d, 1, "")

\* path.join(relativePath, entry) for two relative paths without "." or ".."
PathJoin(rel, entry, psep) == IF rel = "" THEN entry ELSE rel \o psep \o entry

-----------------------------------------------------------------------------
(* Rule tables                                                             *)

CLAUDE_EXCLUDES ==
    <<".credentials", ".auth", "*.key", "*.pem", "*.secret", "oauth_token*",
      ".cache", "node_modules", ".git",
      "plugins/cache", "plugins/install-counts-cache", "plugins/installed_plugins",
      "plugins/known_marketplaces", "plugins/marketplaces">>

PLUGIN_INFRA_DIRS ==
    {"cache", "install-counts-cache", "installed_plugins", "known_marketplaces",
     "marketplaces"}

SAFE_INCLUDES ==
    <<"CLAUDE.md", "commands", "commands/**", "skills", "skills/**", "hooks",
      "hooks/**", "plugins", "plugins/**", "mcp.json", "mcp_servers",
      "mcp_servers/**", "agents", "agents/**">>

GITHUB_EXCLUDES ==
    <<".credentials", ".auth", "*.key", "*.pem", "*.secret", "oauth_token*",
      ".cache", "node_modules", ".git">>

GITHUB_SAFE_INCLUDES ==
    <<"copilot-instructions.md", "skills", "skills/**", "agents", "agents/**",
      "instructions", "instructions/**", "mcp-config.json">>

Range(s) == {s[i] : i \in DOMAIN s}

-----------------------------------------------------------------------------
(* Pattern matcher                                                         *)

\* one allow rule against an entry (its name and its normalized path)
AllowRuleMatches(pattern, name, normalizedPath) ==
    IF EndsWith(pattern, "/**")
    THEN LET dirName == DropLast(pattern, 3)
         IN  StartsWith(normalizedPath, dirName \o "/") \/ normalizedPath = dirName
    ELSE name = pattern \/ normalizedPath = pattern

SafeIncludesOf(prov) == IF prov = "claude" THEN SAFE_INCLUDES ELSE GITHUB_SAFE_INCLUDES

isAllowed(prov, name, path, psep) ==
    LET normalizedPath == SplitJoin(path, psep, "/")
    IN  \E pattern \in Range(SafeIncludesOf(prov)) :
            AllowRuleMatches(pattern, name, normalizedPath)

\* one deny rule of the Claude provider: *.ext, exact name or path, prefix*
ClaudeDenyRuleMatches(pattern, name, normalizedPath) ==
    IF StartsWith(pattern, "*.")
    THEN EndsWith(name, DropFirst(pattern, 1))
    ELSE \/ name = pattern
         \/ normalizedPath = pattern
         \/ EndsWith(pattern, "*") /\ StartsWith(name, DropLast(pattern, 1))

\* one deny rule of the GitHub provider: matched against the name only
GitHubDenyRuleMatches(pattern, name) ==
    IF StartsWith(pattern, "*.")
    THEN EndsWith(name, DropFirst(pattern, 1))
    ELSE \/ name = pattern
         \/ EndsWith(pattern, "*") /\ StartsWith(name, DropLast(pattern, 1))

\* faulty variant: the deny list matched by exact name or path only, wildcards ignored
shouldExcludeExactOnly(prov, name, path, excludes, psep) ==
    LET normalizedPath == SplitJoin(path, psep, "/")
    IN  \E pattern \in Range(excludes) : name = pattern \/ normalizedPath = pattern

shouldExclude(prov, name, path, excludes, psep) ==
    LET normalizedPath == SplitJoin(path, psep, "/")
    IN  \E pattern \in Range(excludes) :
            IF prov = "claude"
            THEN ClaudeDenyRuleMatches(pattern, name, normalizedPath)
            ELSE GitHubDenyRuleMatches(pattern, name)

\* faulty variant: the default deny list applied whatever includeSecrets says
ExcludesIgnoringFlag(prov, includeSecrets) ==
    IF prov = "claude" THEN CLAUDE_EXCLUDES ELSE GITHUB_EXCLUDES

\* the deny list a walk runs with
ExcludesOf(prov, includeSecrets) ==
    IF prov = "claude"
    THEN (IF includeSecrets THEN <<>> ELSE CLAUDE_EXCLUDES)
    ELSE GITHUB_EXCLUDES

-----------------------------------------------------------------------------
(* Directory trees and the fs calls the engine makes                       *)

NoDir == [p \in {} |-> "dir"]

EmptyDir == [p \in {<<>>} |-> "dir"]

\* the bytes of a file that readFileSync is refused (a file of mode 000): it can be
\* listed and statted, every read of it throws EACCES
Unreadable == "unreadable"

Exists(t, p) == p \in DOMAIN t

IsDirectory(t, p) == p \in DOMAIN t /\ t[p] = "dir"

IsFile(t, p) == p \in DOMAIN t /\ t[p] # "dir"

Files(t) == {p \in DOMAIN t : t[p] # "dir"}

IsPrefix(p, q) == Len(p) <= Len(q) /\ SubSeq(q, 1, Len(p)) = p

Parent(p) == SubSeq(p, 1, Len(p) - 1)

Prefixes(p) == {SubSeq(p, 1, n) : n \in 0..Len(p)}

\* the order in which readdirSync enumerates the entries of a directory
EntryOrder ==
    <<"CLAUDE.md", "copilot-instructions.md", "settings.json", "profile.json",
      "commands", "skills", "plugins", "secrets", "workflows", "instructions",
      "a.md", "s.md", "i.md", "k.pem", "key.pem", "ci.yml",
      "cache", "mine", "c.bin", "p.json", "hooks", "agents", "mcp.json",
      ".credentials", "random.txt", "oauth_token1", "x.key">>

\* readdirSync(dir): the names of the entries of an existing directory
readdirSync(t, dir) == SelectSeq(EntryOrder, LAMBDA n : Append(dir, n) \in DOMAIN t)

\* the result of an fs call: the tree afterwards and the error code ("" if none)
Ok(t) == [fs |-> t, err |-> ""]
Fail(t, code) == [fs |-> t, err |-> code]

\* mkdirSync(p, { recursive: true }): creates p and its missing ancestors;
\* EEXIST / ENOTDIR when p or an ancestor is a file
mkdirSync(t, p) ==
    IF \E q \in Prefixes(p) : IsFile(t, q)
    THEN Fail(t, IF IsFile(t, p) THEN "EEXIST" ELSE "ENOTDIR")
    ELSE Ok([q \in DOMAIN t \cup Prefixes(p) |-> IF q \in DOMAIN t THEN t[q] ELSE "dir"])

\* writeFileSync(p, bytes): creates or overwrites the file p
writeFileSync(t, p, bytes) ==
    IF IsDirectory(t, p) THEN Fail(t, "EISDIR")
    ELSE IF p = <<>> \/ ~Exists(t, Parent(p)) THEN Fail(t, "ENOENT")
    ELSE IF ~IsDirectory(t, Parent(p)) THEN Fail(t, "ENOTDIR")
    ELSE Ok([q \in DOMAIN t \cup {p} |-> IF q = p THEN bytes ELSE t[q]])

\* rmSync(p, { recursive: true, force: true }): removes p and all beneath it
rmSyncRecursive(t, p) == Ok([q \in {r \in DOMAIN t : ~IsPrefix(p, r)} |-> t[q]])

\* rmSync(p, { force: true }): removes the file p; refuses a directory
rmSyncFile(t, p) ==
    IF IsDirectory(t, p) THEN Fail(t, "ERR_FS_EISDIR")
    ELSE Ok([q \in DOMAIN t \ {p} |-> t[q]])

\* faulty variant: a copy that is not recursive: the directory and its own files only
cpSyncShallow(src, dest) ==
    Ok([p \in DOMAIN dest \cup {q \in DOMAIN src : Len(q) = 0 \/ (Len(q) = 1 /\ src[q] # "dir")} |->
           IF p \in DOMAIN src THEN src[p] ELSE dest[p]])

\* cpSync(src, dest, { recursive: true }) of an existing directory src onto dest:
\* every entry of src is created in dest; a file where src has a directory (or
\* the reverse) is an error
cpSync(src, dest) ==
    IF \E p \in DOMAIN src : Exists(dest, p) /\ IsDirectory(dest, p) # IsDirectory(src, p)
    THEN Fail(dest, "ERR_FS_CP")
    ELSE Ok([p \in DOMAIN dest \cup DOMAIN src |-> IF p \in DOMAIN src THEN src[p] ELSE dest[p]])

-----------------------------------------------------------------------------
(* getFilesToArchive: the allowlist walk                                   *)

NoAccess == [files |-> <<>>, listed |-> {}, statted |-> {}, err |-> ""]

RECURSIVE walk(_, _, _, _, _, _, _)
RECURSIVE walkEntries(_, _, _, _, _, _, _, _)

\* faulty variant: the loop with statSync moved in front of the allow and deny checks
walkEntriesStatFirst(prov, t, currentDir, relativePath, entries, excludes, psep, acc) ==
    IF entries = <<>> \/ acc.err # "" THEN acc
    ELSE LET entry == Head(entries)
             fullPath == Append(currentDir, entry)
             relPath == PathJoin(relativePath, entry, psep)
             st == [acc EXCEPT !.statted = @ \cup {fullPath}]
             next ==
                 IF ~isAllowed(prov, entry, relPath, psep) THEN st
                 ELSE IF shouldExclude(prov, entry, relPath, excludes, psep) THEN st
                 ELSE IF IsDirectory(t, fullPath)
                      THEN walk(prov, t, fullPath, relPath, excludes, psep, st)
                      ELSE [st EXCEPT !.files = Append(@, SplitJoin(relPath, psep, "/"))]
         IN  walkEntries(prov, t, currentDir, relativePath, Tail(entries), excludes, psep, next)

\* the body of the for loop of walk, over the entries still to visit
walkEntries(prov, t, currentDir, relativePath, entries, excludes, psep, acc) ==
    IF entries = <<>> \/ acc.err # "" THEN acc
    ELSE LET entry == Head(entries)
             fullPath == Append(currentDir, entry)
             relPath == PathJoin(relativePath, entry, psep)
             next ==
                 IF ~isAllowed(prov, entry, relPath, psep) THEN acc
                 ELSE IF shouldExclude(prov, entry, relPath, excludes, psep) THEN acc
                 ELSE LET st == [acc EXCEPT !.statted = @ \cup {fullPath}]
                      IN  IF IsDirectory(t, fullPath)
                          THEN walk(prov, t, fullPath, relPath, excludes, psep, st)
                          ELSE [st EXCEPT !.files = Append(@, SplitJoin(relPath, psep, "/"))]
         IN  walkEntries(prov, t, currentDir, relativePath, Tail(entries), excludes, psep, next)

walk(prov, t, currentDir, relativePath, excludes, psep, acc) ==
    IF ~Exists(t, currentDir)
    THEN (IF prov = "github" THEN acc ELSE [acc EXCEPT !.err = "ENOENT"])
    ELSE walkEntries(prov, t, currentDir, relativePath, readdirSync(t, currentDir),
                     excludes, psep, [acc EXCEPT !.listed = @ \cup {currentDir}])

\* getFilesToArchive(dir, includeSecrets): files, and what the walk touched
getFilesToArchive(prov, t, includeSecrets, psep) ==
    walk(prov, t, <<>>, "", ExcludesOf(prov, includeSecrets), psep, NoAccess)

-----------------------------------------------------------------------------
(* Content categorizer                                                     *)

\* the index of the last "." of s, 0 if there is none
RECURSIVE LastDot(_, _)
LastDot(s, i) == IF i = 0 THEN 0 ELSE IF SubSeq(s, i, i) = "." THEN i ELSE LastDot(s, i - 1)

\* s.replace(/\.[^.]+$/, ''): drops a final extension of at least one character
StripExtension(s) ==
    LET d == LastDot(s, Len(s))
    IN  IF d = 0 \/ d = Len(s) THEN s ELSE SubSeq(s, 1, d - 1)

InstructionsFile(prov) == IF prov = "claude" THEN "CLAUDE.md" ELSE "copilot-instructions.md"

McpFile(prov) == IF prov = "claude" THEN "mcp.json" ELSE "mcp-config.json"

NoContents == [c \in {} |-> <<>>]

\* contents[category].push(item), creating the bucket when it is missing
Push(contents, category, item) ==
    [c \in DOMAIN contents \cup {category} |->
        IF c = category
        THEN (IF c \in DOMAIN contents THEN Append(contents[c], item) ELSE <<item>>)
        ELSE contents[c]]

\* one iteration of the loop of deriveContents
deriveStep(prov, contents, file, psep) ==
    LET normalized == SplitJoin(file, psep, "/")
        parts == Split(normalized, "/")
    IN  IF normalized = InstructionsFile(prov)
        THEN Push(contents, "instructions", InstructionsFile(prov))
        ELSE IF normalized = McpFile(prov)
        THEN Push(contents, "mcp", McpFile(prov))
        ELSE IF Len(parts) >= 2
        THEN LET category == parts[1]
                 itemName == StripExtension(parts[2])
             IN  IF category \in DOMAIN contents /\ itemName \in Range(contents[category])
                 THEN contents
                 ELSE Push(contents, category, itemName)
        ELSE contents

RECURSIVE deriveFrom(_, _, _, _)
deriveFrom(prov, contents, files, psep) ==
    IF files = <<>> THEN contents
    ELSE deriveFrom(prov, deriveStep(prov, contents, Head(files), psep), Tail(files), psep)

deriveContents(prov, files, psep) == deriveFrom(prov, NoContents, files, psep)

\* JSON.parse of the server-definition file: the documents the model knows, any
\* other bytes do not parse
JsonParses(bytes) == bytes \in {"{}", "{mcpServers:{}}", "{mcpServers:{s1,s2}}", "{s3}", "null"}

\* Object.keys(mcpData.mcpServers || mcpData) of a parsed document
ServerNames(bytes) ==
    CASE bytes = "{mcpServers:{s1,s2}}" -> <<"s1", "s2">>
      [] bytes = "{s3}" -> <<"s3">>
      [] OTHER -> <<>>

\* the body of the try block of deriveContentsWithMcp: existsSync, readFileSync,
\* JSON.parse, Object.keys; the error it throws ("" for none) and the names it finds
readMcpServers(dir) ==
    LET mcpPath == <<"mcp.json">>
    IN  IF ~Exists(dir, mcpPath) THEN [err |-> "", names |-> <<>>]
        ELSE IF ~IsFile(dir, mcpPath) THEN [err |-> "EISDIR", names |-> <<>>]
        ELSE IF dir[mcpPath] = Unreadable THEN [err |-> "EACCES", names |-> <<>>]
        ELSE IF ~JsonParses(dir[mcpPath]) THEN [err |-> "SyntaxError", names |-> <<>>]
        ELSE IF dir[mcpPath] = "null" THEN [err |-> "TypeError", names |-> <<>>]
        ELSE [err |-> "", names |-> ServerNames(dir[mcpPath])]

\* faulty variant: the enrichment without its try/catch
deriveContentsWithMcpUncaught(prov, files, dir, psep) ==
    LET contents == deriveContents(prov, files, psep)
        read == readMcpServers(dir)
    IN  IF "mcp" \notin DOMAIN contents THEN [contents |-> contents, err |-> ""]
        ELSE IF read.err # "" THEN [contents |-> contents, err |-> read.err]
        ELSE IF read.names # <<>>
        THEN [contents |-> [contents EXCEPT !["mcp"] = read.names], err |-> ""]
        ELSE [contents |-> contents, err |-> ""]

\* deriveContentsWithMcp(files, claudeDir): the contents and the error it raises
deriveContentsWithMcp(prov, files, dir, psep) ==
    LET contents == deriveContents(prov, files, psep)
        read == readMcpServers(dir)
    IN  IF "mcp" \in DOMAIN contents /\ read.err = "" /\ read.names # <<>>
        THEN [contents |-> [contents EXCEPT !["mcp"] = read.names], err |-> ""]
        ELSE [contents |-> contents, err |-> ""]

-----------------------------------------------------------------------------
(* Snapshot writer                                                         *)

\* the metadata record of profile.json (the fields the engine computes), with where
\* the record comes from: "none" (no file), "given" (not written by this run), "created"
\* (written by createSnapshot, from the configuration directory `from`)
NoMeta == [origin |-> "none", files |-> <<>>, contents |-> NoContents,
           includesSecrets |-> FALSE, from |-> NoDir]

GivenMeta == [origin |-> "given", files |-> <<>>, contents |-> NoContents,
              includesSecrets |-> FALSE, from |-> NoDir]

\* what readProfileMetadata would throw on: a metadata file JSON.parse rejects
CorruptMeta == [origin |-> "corrupt", files |-> <<>>, contents |-> NoContents,
                includesSecrets |-> FALSE, from |-> NoDir]

MetadataFile == <<"profile.json">>

\* the bytes of a metadata file that is not JSON
CorruptJson == "not json"

\* readProfileMetadata(profileDir) for a profile this run did not write
readProfileMetadata(profile) ==
    IF ~Exists(profile, MetadataFile) THEN NoMeta
    ELSE IF profile[MetadataFile] = CorruptJson THEN CorruptMeta
    ELSE GivenMeta

\* path.join(dir, file) for a stored forward-slash path: its entry names
PathOf(file) == Split(file, "/")

\* the copy loop of createSnapshot: mkdirSync(dirname(dest)), read, write
RECURSIVE copyFiles(_, _, _)
copyFiles(src, files, acc) ==
    IF files = <<>> \/ acc.err # "" THEN acc
    ELSE LET destPath == PathOf(Head(files))
             made == mkdirSync(acc.fs, Parent(destPath))
             written == IF made.err # "" THEN made
                        ELSE IF ~IsFile(src, destPath)
                        THEN Fail(made.fs, IF Exists(src, destPath) THEN "EISDIR" ELSE "ENOENT")
                        ELSE IF src[destPath] = Unreadable THEN Fail(made.fs, "EACCES")
                        ELSE writeFileSync(made.fs, destPath, src[destPath])
         IN  copyFiles(src, Tail(files), written)

\* faulty variant: the contents derived from a walk of its own, deny list off
writeSnapshotContentsOfAll(prov, config, profile, meta, includeSecrets, psep) ==
    LET made == mkdirSync(profile, <<>>)
        found == getFilesToArchive(prov, config, includeSecrets, psep)
        copied == copyFiles(config, found.files, made)
        derived == IF prov = "claude"
                   THEN deriveContentsWithMcp(prov, getFilesToArchive(prov, config, TRUE, psep).files,
                                              config, psep)
                   ELSE [contents |-> deriveContents(prov, found.files, psep), err |-> ""]
        saved == writeFileSync(copied.fs, MetadataFile, "json")
    IN  IF made.err # "" THEN [err |-> made.err, profile |-> made.fs, meta |-> meta]
        ELSE IF found.err # "" THEN [err |-> found.err, profile |-> made.fs, meta |-> meta]
        ELSE IF copied.err # "" THEN [err |-> copied.err, profile |-> copied.fs, meta |-> meta]
        ELSE IF derived.err # "" THEN [err |-> derived.err, profile |-> copied.fs, meta |-> meta]
        ELSE IF saved.err # "" THEN [err |-> saved.err, profile |-> saved.fs, meta |-> meta]
        ELSE [err |-> "", profile |-> saved.fs,
              meta |-> [origin |-> "created", files |-> found.files,
                        contents |-> derived.contents,
                        includesSecrets |-> (prov = "claude" /\ includeSecrets),
                        from |-> config]]

\* faulty variant: the metadata record written before the copy loop
writeSnapshotMetadataFirst(prov, config, profile, meta, includeSecrets, psep) ==
    LET made == mkdirSync(profile, <<>>)
        found == getFilesToArchive(prov, config, includeSecrets, psep)
        saved == writeFileSync(made.fs, MetadataFile, "json")
        copied == copyFiles(config, found.files, saved)
        record == [origin |-> "created", files |-> found.files,
                   contents |-> deriveContents(prov, found.files, psep),
                   includesSecrets |-> (prov = "claude" /\ includeSecrets),
                   from |-> config]
    IN  IF made.err # "" THEN [err |-> made.err, profile |-> made.fs, meta |-> meta]
        ELSE IF found.err # "" THEN [err |-> found.err, profile |-> made.fs, meta |-> meta]
        ELSE [err |-> copied.err, profile |-> copied.fs, meta |-> record]

\* createSnapshot once its preconditions hold: mkdirSync(profileDir), the walk, the
\* copy loop, then the metadata record written as profile.json
writeSnapshot(prov, config, profile, meta, includeSecrets, psep) ==
    LET made == mkdirSync(profile, <<>>)
        found == getFilesToArchive(prov, config, includeSecrets, psep)
        copied == copyFiles(config, found.files, made)
        derived == IF prov = "claude"
                   THEN deriveContentsWithMcp(prov, found.files, config, psep)
                   ELSE [contents |-> deriveContents(prov, found.files, psep), err |-> ""]
        saved == writeFileSync(copied.fs, MetadataFile, "json")
    IN  IF made.err # "" THEN [err |-> made.err, profile |-> made.fs, meta |-> meta]
        ELSE IF found.err # "" THEN [err |-> found.err, profile |-> made.fs, meta |-> meta]
        ELSE IF copied.err # "" THEN [err |-> copied.err, profile |-> copied.fs, meta |-> meta]
        ELSE IF derived.err # "" THEN [err |-> derived.err, profile |-> copied.fs, meta |-> meta]
        ELSE IF saved.err # "" THEN [err |-> saved.err, profile |-> saved.fs, meta |-> meta]
        ELSE [err |-> "", profile |-> saved.fs,
              meta |-> [origin |-> "created", files |-> found.files,
                        contents |-> derived.contents,
                        includesSecrets |-> (prov = "claude" /\ includeSecrets),
                        from |-> config]]

\* faulty variant: createSnapshot without the check that the destination does not exist
createSnapshotOverwrite(prov, config, profile, meta, includeSecrets, psep) ==
    IF ~Exists(config, <<>>)
    THEN [err |-> "NotFound", profile |-> profile, meta |-> meta]
    ELSE writeSnapshot(prov, config, profile, meta, includeSecrets, psep)

\* createSnapshot(configDir, profileDir, name, options): the profile directory,
\* the metadata record and the error afterwards
createSnapshot(prov, config, profile, meta, includeSecrets, psep) ==
    IF ~Exists(config, <<>>)
    THEN [err |-> "NotFound", profile |-> profile, meta |-> meta]
    ELSE IF Exists(profile, <<>>)
    THEN [err |-> "AlreadyExists", profile |-> profile, meta |-> meta]
    ELSE writeSnapshot(prov, config, profile, meta, includeSecrets, psep)

-----------------------------------------------------------------------------
(* Snapshot restorer                                                       *)

\* rmSync(p, recursive) of each listed entry that exists, in order
RECURSIVE removeEach(_, _)
removeEach(acc, paths) ==
    IF paths = <<>> \/ acc.err # "" THEN acc
    ELSE removeEach(IF Exists(acc.fs, Head(paths)) THEN rmSyncRecursive(acc.fs, Head(paths)) ELSE acc,
                    Tail(paths))

\* rmSync(p, force) of each listed file that exists, in order
RECURSIVE removeEachFile(_, _)
removeEachFile(acc, paths) ==
    IF paths = <<>> \/ acc.err # "" THEN acc
    ELSE removeEachFile(IF Exists(acc.fs, Head(paths)) THEN rmSyncFile(acc.fs, Head(paths)) ELSE acc,
                        Tail(paths))

contentDirs == <<"commands", "skills", "hooks", "mcp_servers", "agents">>

contentFiles == <<"CLAUDE.md", "mcp.json">>

githubContent == <<"skills", "agents", "instructions", "copilot-instructions.md", "mcp-config.json">>

TopLevel(names) == [i \in DOMAIN names |-> <<names[i]>>]

\* faulty variant: every plugins/ entry is removed, the preserve-list ignored
PluginsToRemoveAll(t) ==
    LET entries == readdirSync(t, <<"plugins">>)
    IN  [i \in DOMAIN entries |-> <<"plugins", entries[i]>>]

\* the plugins/ entries cleanup removes: those not on the preserve-list
PluginsToRemove(t) ==
    LET entries == readdirSync(t, <<"plugins">>)
        doomed == SelectSeq(entries, LAMBDA e : e \notin PLUGIN_INFRA_DIRS)
    IN  [i \in DOMAIN doomed |-> <<"plugins", doomed[i]>>]

\* faulty variant: cleanup that wipes the content directories and nothing else
cleanProfileContentDirsOnly(t) == removeEach(Ok(t), TopLevel(contentDirs))

\* cleanProfileContent(claudeDir)
cleanProfileContent(t) ==
    LET dirsGone == removeEach(Ok(t), TopLevel(contentDirs))
        pluginsGone ==
            IF ~Exists(dirsGone.fs, <<"plugins">>) THEN dirsGone
            ELSE IF ~IsDirectory(dirsGone.fs, <<"plugins">>) THEN Fail(dirsGone.fs, "ENOTDIR")
            ELSE removeEach(dirsGone, PluginsToRemove(dirsGone.fs))
    IN  removeEachFile(pluginsGone, TopLevel(contentFiles))

\* cleanProfileDir(dir) of the GitHub provider
cleanProfileDir(t) == removeEach(Ok(t), TopLevel(githubContent))

\* faulty variant: a replace instead of a merge: every entry of the target is removed
cleanTargetWipe(prov, t) == Ok([p \in DOMAIN t \cap {<<>>} |-> t[p]])

cleanTarget(prov, t) == IF prov = "claude" THEN cleanProfileContent(t) ELSE cleanProfileDir(t)

\* what a failed write of the merge-copy throws: the Claude provider rewrites
\* EBUSY into its own message naming the entry, everything else is rethrown
CopyError(prov, code, name) ==
    IF prov = "claude" /\ code = "EBUSY" THEN "Locked:" \o name ELSE code

\* no destination write fails for a reason outside the model
NoFault == [p \in {} |-> ""]

\* readFileSync(src) then writeFileSync(dest); `locked` gives the error code of the
\* destination writes the operating system refuses (EBUSY for a file held open)
writeMerged(prov, src, acc, path, locked) ==
    LET out == IF path \in DOMAIN locked THEN Fail(acc.fs, locked[path])
               ELSE writeFileSync(acc.fs, path, src[path])
    IN  IF out.err = "" THEN out ELSE Fail(out.fs, CopyError(prov, out.err, path[Len(path)]))

RECURSIVE copyEntries(_, _, _, _, _, _)

\* copyDirMerge(src, dest): the entries of one source directory
copyDirMerge(prov, src, dir, acc, locked) ==
    copyEntries(prov, src, dir, readdirSync(src, dir), acc, locked)

\* the loop of copyProfileFiles and of copyDirMerge over the entries of `dir`
copyEntries(prov, src, dir, entries, acc, locked) ==
    IF entries = <<>> \/ acc.err # "" THEN acc
    ELSE LET name == Head(entries)
             path == Append(dir, name)
             next ==
                 IF IsDirectory(src, path)
                 THEN LET made == mkdirSync(acc.fs, path)
                      IN  IF made.err # "" THEN made
                          ELSE copyDirMerge(prov, src, path, made, locked)
                 ELSE writeMerged(prov, src, acc, path, locked)
         IN  copyEntries(prov, src, dir, Tail(entries), next, locked)

\* faulty variant: the copy without the skip of profile.json
copyProfileFilesWithMetadata(prov, src, dest, locked) ==
    copyEntries(prov, src, <<>>, readdirSync(src, <<>>), Ok(dest), locked)

\* copyProfileFiles(srcDir, destDir): every entry of the profile but its profile.json
copyProfileFiles(prov, src, dest, locked) ==
    copyEntries(prov, src, <<>>,
                SelectSeq(readdirSync(src, <<>>), LAMBDA name : name # "profile.json"),
                Ok(dest), locked)

-----------------------------------------------------------------------------
(* The directories the model starts from                                   *)

\* the most files a live configuration directory starts with
MaxConfigFiles == 3

\* the most content files a stored profile not written by this run starts with
MaxProfileFiles == 2

\* the most files the directory of a getFilesToArchive walk holds
MaxWalkFiles == 4

\* the file leaves a live configuration directory may hold
ClaudeConfigLeaves ==
    {<<"CLAUDE.md">>, <<"settings.json">>, <<"commands", "a.md">>, <<"commands", "k.pem">>,
     <<"plugins", "cache", "c.bin">>, <<"plugins", "mine", "p.json">>}

GitHubConfigLeaves ==
    {<<"copilot-instructions.md">>, <<"skills", "s.md">>, <<"skills", "k.pem">>,
     <<"workflows", "ci.yml">>}

\* the file leaves a stored profile that was not written by this run may hold
ClaudeProfileLeaves ==
    {<<"settings.json">>, <<"commands", "a.md">>, <<"plugins", "cache", "c.bin">>}

GitHubProfileLeaves ==
    {<<"skills", "s.md">>, <<"workflows", "ci.yml">>, <<"instructions", "i.md">>}

\* the file leaves of the directory a getFilesToArchive walk is tried on
ClaudeWalkLeaves ==
    ClaudeConfigLeaves \cup
    {<<"secrets", "key.pem">>, <<".credentials">>, <<"random.txt">>,
     <<"hooks", "oauth_token1">>, <<"CLAUDE.md", "mcp.json">>,
     <<"plugins", "mine", "cache", "x.key">>}

GitHubWalkLeaves ==
    GitHubConfigLeaves \cup
    {<<"secrets", "key.pem">>, <<".credentials">>, <<"agents", "oauth_token1">>,
     <<"instructions", "i.md">>}

ConfigLeaves(prov) == IF prov = "claude" THEN ClaudeConfigLeaves ELSE GitHubConfigLeaves

ProfileLeaves(prov) == IF prov = "claude" THEN ClaudeProfileLeaves ELSE GitHubProfileLeaves

WalkLeaves(prov) == IF prov = "claude" THEN ClaudeWalkLeaves ELSE GitHubWalkLeaves

\* the bytes of the file `path` written by `who`
Bytes(who, path) == who \o ":" \o path[Len(path)]

\* the directory holding exactly the given files, written by `who`
TreeOf(leaves, who) ==
    [p \in {<<>>} \cup UNION {Prefixes(l) : l \in leaves} |->
        IF p \in leaves THEN Bytes(who, p) ELSE "dir"]

\* no leaf of a tree lies beneath another leaf
Compatible(S) == \A p, q \in S : p # q => ~IsPrefix(p, q)

UpTo(leaves, n) == {S \in SUBSET leaves : Cardinality(S) <= n /\ Compatible(S)}

ConfigTrees(prov) ==
    {NoDir} \cup {TreeOf(S, "user") : S \in UpTo(ConfigLeaves(prov), MaxConfigFiles)}

\* a stored profile: without its metadata file, with it, or with one that does not parse
ProfileTrees(prov) ==
    {NoDir} \cup {TreeOf(S, "profile") : S \in UpTo(ProfileLeaves(prov), MaxProfileFiles)}
            \cup {TreeOf(S \cup {<<"profile.json">>}, "profile") :
                      S \in UpTo(ProfileLeaves(prov), MaxProfileFiles)}
            \cup {[TreeOf(S \cup {<<"profile.json">>}, "profile")
                       EXCEPT ![<<"profile.json">>] = CorruptJson] :
                      S \in UpTo(ProfileLeaves(prov), MaxProfileFiles)}

WalkTrees(prov) ==
    {NoDir} \cup {TreeOf(S, "user") : S \in UpTo(WalkLeaves(prov), MaxWalkFiles)}

NoCall == [op |-> "none", target |-> "config", withBackup |-> FALSE,
           includeSecrets |-> FALSE, backupFailed |-> FALSE, fault |-> NoFault, err |-> ""]

NoPre == [config |-> NoDir, profile |-> NoDir, scratch |-> NoDir, metadata |-> NoMeta]

NoArchive == [op |-> "none", includeSecrets |-> FALSE, result |-> NoAccess]

NoPub == [pc |-> "none"]

\* the directories as an operation finds them
Snapshot == [config |-> configDir, profile |-> profileDir, scratch |-> scratchDir,
             metadata |-> metadata]

Init ==
    /\ provider \in {"claude", "github"}
    /\ sep = "/"
    /\ configDir \in ConfigTrees(provider)
    /\ profileDir \in ProfileTrees(provider)
    /\ metadata = readProfileMetadata(profileDir)
    /\ scratchDir = NoDir
    /\ backupDir = NoDir
    /\ pc = "idle"
    /\ call = NoCall
    /\ pre = NoPre
    /\ archive = NoArchive
    /\ pub = NoPub

-----------------------------------------------------------------------------
(* Operations.  backupDir and scratchDir are the directories of the running *)
(* or most recent extractSnapshot call: every call gets a backup directory *)
(* of a new (timestamped) name, the directories of an earlier call are     *)
(* never touched again, and the model stops tracking them when the next    *)
(* operation begins.                                                       *)

Target(which) == IF which = "config" THEN configDir ELSE scratchDir

Called(op, which, withBackup, includeSecrets, err) ==
    [op |-> op, target |-> which, withBackup |-> withBackup,
     includeSecrets |-> includeSecrets, backupFailed |-> FALSE, fault |-> NoFault,
     err |-> err]

\* saveProfile -> createSnapshot(configDir, profileDir, name, options)
CreateSnapshot(includeSecrets) ==
    /\ pc = "idle"
    /\ includeSecrets => provider = "claude"
    /\ LET r == createSnapshot(provider, configDir, profileDir, metadata, includeSecrets, sep)
       IN  /\ profileDir' = r.profile
           /\ metadata' = r.meta
           /\ call' = Called("createSnapshot", "config", FALSE, includeSecrets, r.err)
    /\ pre' = Snapshot
    /\ scratchDir' = NoDir
    /\ backupDir' = NoDir
    /\ UNCHANGED <<provider, sep, configDir, pc, archive, pub>>

\* the user turns to another stored profile (another name under profilesDir) for
\* the commands that follow
SelectProfile ==
    /\ pc = "idle"
    /\ profileDir' \in ProfileTrees(provider) \ {profileDir}
    /\ metadata' = readProfileMetadata(profileDir')
    /\ call' = NoCall
    /\ pre' = NoPre
    /\ scratchDir' = NoDir
    /\ backupDir' = NoDir
    /\ UNCHANGED <<provider, sep, configDir, pc, archive, pub>>

\* deleteLocalProfile: rmSync(profileDir, { recursive: true, force: true })
DeleteProfile ==
    /\ pc = "idle"
    /\ Exists(profileDir, <<>>)
    /\ profileDir' = rmSyncRecursive(profileDir, <<>>).fs
    /\ metadata' = NoMeta
    /\ call' = Called("deleteLocalProfile", "config", FALSE, FALSE, "")
    /\ pre' = Snapshot
    /\ scratchDir' = NoDir
    /\ backupDir' = NoDir
    /\ UNCHANGED <<provider, sep, configDir, pc, archive, pub>>

\* faulty variant: the precondition asks for the profile directory only, not its metadata
extractBeginAnyDirectory(profile, target, withBackup, ioError, partial) ==
    IF ~Exists(profile, <<>>)
    THEN [err |-> "InvalidProfile", backup |-> NoDir, failed |-> FALSE]
    ELSE IF withBackup /\ Exists(target, <<>>)
    THEN IF ioError # ""
         THEN [err |-> ioError, backup |-> partial, failed |-> TRUE]
         ELSE [err |-> "", backup |-> cpSync(target, NoDir).fs, failed |-> FALSE]
    ELSE [err |-> "", backup |-> NoDir, failed |-> FALSE]

\* extractSnapshot up to its backup: the precondition on the profile, then
\* cpSync(targetDir, backupDir) when a backupDir is given and targetDir exists;
\* ioError is the error cpSync throws ("" when the copy goes through), and
\* partial is what an interrupted copy leaves of the backup
extractBegin(profile, target, withBackup, ioError, partial) ==
    IF ~Exists(profile, <<>>) \/ ~Exists(profile, MetadataFile)
    THEN [err |-> "InvalidProfile", backup |-> NoDir, failed |-> FALSE]
    ELSE IF withBackup /\ Exists(target, <<>>)
    THEN IF ioError # ""
         THEN [err |-> ioError, backup |-> partial, failed |-> TRUE]
         ELSE [err |-> "", backup |-> cpSync(target, NoDir).fs, failed |-> FALSE]
    ELSE [err |-> "", backup |-> NoDir, failed |-> FALSE]

\* loadProfile -> extractSnapshot(profileDir, targetDir, backupDir?), first step;
\* a restore into the scratch directory starts from a fresh one
ExtractStart(which, withBackup, ioError, partial) ==
    /\ pc = "idle"
    /\ ioError # "" => withBackup /\ which = "config" /\ Exists(configDir, <<>>)
    /\ ioError = "" => partial = NoDir
    /\ scratchDir' = NoDir
    /\ pre' = [Snapshot EXCEPT !.scratch = NoDir]
    /\ LET r == extractBegin(profileDir, IF which = "config" THEN configDir ELSE NoDir,
                             withBackup, ioError, partial)
       IN  /\ call' = [Called("extractSnapshot", which, withBackup, FALSE, r.err)
                          EXCEPT !.backupFailed = r.failed]
           /\ backupDir' = r.backup
           /\ pc' = IF r.err = "" THEN "clean" ELSE "idle"
    /\ UNCHANGED <<provider, sep, configDir, profileDir, metadata, archive, pub>>

\* the target after a step of extractSnapshot
SetTarget(t) ==
    IF call.target = "config"
    THEN configDir' = t /\ UNCHANGED scratchDir
    ELSE scratchDir' = t /\ UNCHANGED configDir

\* extractSnapshot: mkdirSync(targetDir) and the cleanup of the old content
ExtractClean ==
    /\ pc = "clean"
    /\ LET made == mkdirSync(Target(call.target), <<>>)
           cleaned == IF made.err # "" THEN made ELSE cleanTarget(provider, made.fs)
       IN  /\ SetTarget(cleaned.fs)
           /\ call' = [call EXCEPT !.err = cleaned.err]
           /\ pc' = IF cleaned.err = "" THEN "copy" ELSE "idle"
    /\ UNCHANGED <<provider, sep, profileDir, metadata, backupDir, pre, archive, pub>>

\* the write failures the operating system may answer a copy of the profile with: none,
\* or one destination file refused as busy or as not permitted
Faults ==
    {NoFault} \cup {[p \in {f} |-> code] : f \in ClaudeProfileLeaves \cup GitHubProfileLeaves,
                                         code \in {"EBUSY", "EACCES"}}

\* extractSnapshot: copyProfileFiles(profileDir, targetDir)
ExtractCopy(fault) ==
    /\ pc = "copy"
    /\ DOMAIN fault \subseteq Files(profileDir) \ {MetadataFile}
    /\ LET copied == copyProfileFiles(provider, profileDir, Target(call.target), fault)
       IN  /\ SetTarget(copied.fs)
           /\ call' = [call EXCEPT !.err = copied.err, !.fault = fault]
    /\ pc' = "idle"
    /\ UNCHANGED <<provider, sep, profileDir, metadata, backupDir, pre, archive, pub>>

Next ==
    \/ \E includeSecrets \in BOOLEAN : CreateSnapshot(includeSecrets)
    \/ DeleteProfile
    \/ \E which \in {"config", "scratch"}, withBackup \in BOOLEAN,
          ioError \in {"", "EIO"}, partial \in {NoDir, EmptyDir} :
           ExtractStart(which, withBackup, ioError, partial)
    \/ SelectProfile
    \/ ExtractClean
    \/ ExtractCopy(NoFault)

Spec == Init /\ [][Next]_vars

-----------------------------------------------------------------------------
(* Restores of one stored profile under write failures of the destination  *)

NextRestore ==
    \/ \E which \in {"config", "scratch"}, withBackup \in BOOLEAN :
           ExtractStart(which, withBackup, "", NoDir)
    \/ ExtractClean
    \/ \E fault \in Faults : ExtractCopy(fault)

SpecRestore == Init /\ [][NextRestore]_vars

-----------------------------------------------------------------------------
(* The allowlist walk on its own, on either host platform                  *)

InitWalk ==
    /\ provider \in {"claude", "github"}
    /\ sep \in {"/", "\\"}
    /\ configDir \in WalkTrees(provider)
    /\ profileDir = NoDir
    /\ metadata = NoMeta
    /\ scratchDir = NoDir
    /\ backupDir = NoDir
    /\ pc = "idle"
    /\ call = NoCall
    /\ pre = NoPre
    /\ archive = NoArchive
    /\ pub = NoPub

\* getFilesToArchive(configDir, includeSecrets)
GetFilesToArchive(includeSecrets) ==
    /\ includeSecrets => provider = "claude"
    /\ Exists(configDir, <<>>) \/ provider = "github"
    /\ archive' = [op |-> "getFilesToArchive", includeSecrets |-> includeSecrets,
                   result |-> getFilesToArchive(provider, configDir, includeSecrets, sep)]
    /\ UNCHANGED <<provider, sep, configDir, profileDir, metadata, scratchDir, backupDir,
                   pc, call, pre, pub>>

NextWalk == \E includeSecrets \in BOOLEAN : GetFilesToArchive(includeSecrets)

SpecWalk == InitWalk /\ [][NextWalk]_vars

-----------------------------------------------------------------------------
(* Saves of a configuration directory that may hold a server-definition    *)
(* file, on either host platform                                           *)

\* the bytes a server-definition file may hold: JSON documents and one that is not JSON
McpDocs == {"{}", "{mcpServers:{}}", "{mcpServers:{s1,s2}}", "{s3}", "null", "user:mcp.json"}

\* the file leaves of a saved configuration directory: mcp.json is a file, or a directory
SaveLeaves(prov) ==
    IF prov = "claude"
    THEN ClaudeConfigLeaves \cup {<<"mcp.json">>, <<"mcp.json", "x">>}
    ELSE GitHubConfigLeaves \cup {<<"mcp-config.json">>}

WithMcp(t, doc) ==
    IF IsFile(t, <<"mcp.json">>) THEN [t EXCEPT ![<<"mcp.json">>] = doc] ELSE t

SaveTrees(prov) ==
    {NoDir} \cup {WithMcp(TreeOf(S, "user"), doc) :
                     S \in UpTo(SaveLeaves(prov), MaxConfigFiles), doc \in McpDocs}

\* the file lists deriveContentsWithMcp is tried on directly
EnrichInputs == {<<"mcp.json">>, <<"commands/a.md", "mcp.json">>, <<"commands/a.md">>}

InitSave ==
    /\ provider \in {"claude", "github"}
    /\ sep \in {"/", "\\"}
    /\ configDir \in SaveTrees(provider)
    /\ profileDir = NoDir
    /\ metadata = NoMeta
    /\ scratchDir = NoDir
    /\ backupDir = NoDir
    /\ pc = "idle"
    /\ call = NoCall
    /\ pre = NoPre
    /\ archive = NoArchive
    /\ pub = NoPub

\* deriveContentsWithMcp(files, claudeDir) called on a file list of the caller's
EnrichContents(files) ==
    /\ provider = "claude"
    /\ LET r == deriveContentsWithMcp(provider, files, configDir, sep)
       IN  archive' = [op |-> "deriveContentsWithMcp", files |-> files,
                       contents |-> r.contents, err |-> r.err]
    /\ UNCHANGED <<provider, sep, configDir, profileDir, metadata, scratchDir, backupDir,
                   pc, call, pre, pub>>

NextSave ==
    \/ \E includeSecrets \in BOOLEAN : CreateSnapshot(includeSecrets)
    \/ \E files \in EnrichInputs : EnrichContents(files)

SpecSave == InitSave /\ [][NextSave]_vars

-----------------------------------------------------------------------------
(* The categorizer on its own, on any sequence of paths                    *)

\* the longest sequence of paths deriveContents is tried on
MaxDeriveLen == 3

\* the paths deriveContents is tried on
DerivePaths ==
    {"CLAUDE.md", "mcp.json", "copilot-instructions.md", "settings.json",
     "commands/a.md", "commands/a.txt", "commands/b", "skills/d/SKILL.md",
     "commands\\a.md"}

SeqsUpTo(S, n) == UNION {[1..k -> S] : k \in 0..n}

InitDerive ==
    /\ provider \in {"claude", "github"}
    /\ sep \in {"/", "\\"}
    /\ configDir = NoDir
    /\ profileDir = NoDir
    /\ metadata = NoMeta
    /\ scratchDir = NoDir
    /\ backupDir = NoDir
    /\ pc = "idle"
    /\ call = NoCall
    /\ pre = NoPre
    /\ archive \in {[op |-> "none", files |-> fs, contents |-> NoContents] :
                       fs \in SeqsUpTo(DerivePaths, MaxDeriveLen)}
    /\ pub = NoPub

\* deriveContents(files)
DeriveContents ==
    /\ archive.op = "none"
    /\ archive' = [op |-> "deriveContents", files |-> archive.files,
                   contents |-> deriveContents(provider, archive.files, sep)]
    /\ UNCHANGED <<provider, sep, configDir, profileDir, metadata, scratchDir, backupDir,
                   pc, call, pre, pub>>

NextDerive == DeriveContents

SpecDerive == InitDerive /\ [][NextDerive]_vars

-----------------------------------------------------------------------------
(* Publish orchestration: one publishProfile invocation.  The credential    *)
(* source, device flow, identity service and pull-request service are      *)
(* external; each await is a step whose outcome the environment chooses.   *)

\* the GitHub users a token can belong to
Users == {"alice", "bob"}

\* the stored profile a publish reads: its directory, its metadata file (absent,
\* parsable or not parsable) and the contents mapping of the metadata
PublishProfiles ==
    {[exists |-> FALSE, meta |-> "none", contents |-> NoContents],
     [exists |-> TRUE, meta |-> "none", contents |-> NoContents],
     [exists |-> TRUE, meta |-> "corrupt", contents |-> NoContents],
     [exists |-> TRUE, meta |-> "ok", contents |-> NoContents],
     [exists |-> TRUE, meta |-> "ok", contents |-> [c \in {"commands"} |-> <<>>]],
     [exists |-> TRUE, meta |-> "ok", contents |-> [c \in {"commands"} |-> <<"a">>]],
     [exists |-> TRUE, meta |-> "ok", contents |-> [c \in {"commands", "hooks"} |->
                                                     IF c = "hooks" THEN <<"h">> ELSE <<>>]]}

\* what doPublish ends with: the pull request, or the error thrown by the index fetch,
\* by the read of the profile's files or by the pull-request service, whose message
\* contains "403" or does not
PublishOutcomes ==
    {[ok |-> TRUE, origin |-> "pr", has403 |-> FALSE]}
    \cup [ok : {FALSE}, origin : {"index", "files", "pr"}, has403 : BOOLEAN]

\* the calls doPublish makes to the outside before it ends with the outcome
doPublishCalls(outcome) ==
    IF outcome.origin = "pr" THEN <<"fetchRepoIndex", "createProfilePR">>
    ELSE <<"fetchRepoIndex">>

\* the most entries the fetched marketplace index holds
MaxIndexLen == 2

\* the name of the profile being published, and another profile name
PublishedName == "p"

\* the entries a fetched marketplace index may hold
IndexEntries ==
    [name : {PublishedName, "q"}, author : Users, downloads : {5}, stars : {1},
     createdAt : {"earlier"}, contents : {[c \in {"hooks"} |-> <<"h">>]}]

\* the marketplace index fetchRepoIndex returns (index.profiles)
Indexes == UNION {[1..k -> IndexEntries] : k \in 0..MaxIndexLen}

\* new Date().toISOString() at the time of the publish
PublishedAt == "now"

\* faulty variant: the new entry appended without removing the old one
updateIndexAppendOnly(profiles, author, name, contents) ==
    Append(profiles, [name |-> name, author |-> author, downloads |-> 0, stars |-> 0,
                      createdAt |-> PublishedAt, contents |-> contents])

\* doPublish: index.profiles filtered of the (author, name) entry, the new entry pushed
updateIndex(profiles, author, name, contents) ==
    Append(SelectSeq(profiles, LAMBDA e : ~(e.author = author /\ e.name = name)),
           [name |-> name, author |-> author, downloads |-> 0, stars |-> 0,
            createdAt |-> PublishedAt, contents |-> contents])

\* Object.values(contents).some(items => items && items.length > 0)
hasContent(contents) == \E c \in DOMAIN contents : Len(contents[c]) > 0

\* faulty variant: the fallback test without the !useFork conjunct
escalatesInAnyMode(outcome, useFork) == outcome.has403

\* attemptPublish's test for the fallback: error.message.includes('403') && !useFork
escalates(outcome, useFork) == outcome.has403 /\ ~useFork

InitPublish ==
    /\ provider = "claude"
    /\ sep = "/"
    /\ configDir = NoDir
    /\ profileDir = NoDir
    /\ metadata = NoMeta
    /\ scratchDir = NoDir
    /\ backupDir = NoDir
    /\ pc = "idle"
    /\ call = NoCall
    /\ pre = NoPre
    /\ archive = NoArchive
    /\ \E prof \in PublishProfiles, cached \in {"none"} \cup Users, index \in Indexes :
           pub = [pc |-> "start", profile |-> prof, cachedUser |-> cached, index |-> index,
                  token |-> "none", tokenUser |-> "none", useFork |-> FALSE,
                  author |-> "none", confirmed |-> FALSE,
                  auths |-> <<>>, attempts |-> <<>>, log |-> <<>>, reason |-> "", exit |-> "running"]

notPub == <<provider, sep, configDir, profileDir, metadata, scratchDir, backupDir,
            pc, call, pre, archive>>

Exit(code) == [pub EXCEPT !.pc = "done", !.exit = code]

\* faulty variant: the content check is left out
validateProfileWithoutContent(profile) ==
    IF ~profile.exists THEN [exit |-> "1", reason |-> "NotFound"]
    ELSE IF profile.meta = "none" THEN [exit |-> "1", reason |-> "MissingMetadata"]
    ELSE IF profile.meta = "corrupt" THEN [exit |-> "threw", reason |-> "SyntaxError"]
    ELSE [exit |-> "running", reason |-> ""]

\* publishProfile before the credentials: the checks of the profile in the order
\* the code makes them, and how the first failing one ends the invocation
validateProfile(profile) ==
    IF ~profile.exists THEN [exit |-> "1", reason |-> "NotFound"]
    ELSE IF profile.meta = "none" THEN [exit |-> "1", reason |-> "MissingMetadata"]
    ELSE IF profile.meta = "corrupt" THEN [exit |-> "threw", reason |-> "SyntaxError"]
    ELSE IF ~hasContent(profile.contents) THEN [exit |-> "1", reason |-> "NoContent"]
    ELSE [exit |-> "running", reason |-> ""]

\* publishProfile: the profile directory, its metadata and its content are checked
PublishValidate ==
    /\ pub.pc = "start"
    /\ LET v == validateProfile(pub.profile)
       IN  pub' = IF v.reason # ""
                  THEN [Exit(v.exit) EXCEPT !.reason = v.reason]
                  ELSE [pub EXCEPT !.pc = "credentials"]
    /\ UNCHANGED notPub

\* getGitHubToken(): the cached credential, if there is one
PublishCheckCredentials ==
    /\ pub.pc = "credentials"
    /\ pub' = IF pub.cachedUser = "none"
              THEN [pub EXCEPT !.pc = "auth", !.log = Append(@, "getGitHubToken")]
              ELSE [pub EXCEPT !.pc = "identity", !.token = "cached",
                               !.tokenUser = pub.cachedUser, !.useFork = FALSE,
                               !.log = Append(@, "getGitHubToken")]
    /\ UNCHANGED notPub

\* no cached credential: authenticateWithDeviceFlow(), which throws on denial/expiry
PublishInteractiveAuth(user) ==
    /\ pub.pc = "auth"
    /\ pub' = IF user = "none"
              THEN [Exit("threw") EXCEPT !.auths = Append(@, [forced |-> FALSE, ok |-> FALSE]),
                                         !.log = Append(@, "authenticateWithDeviceFlow")]
              ELSE [pub EXCEPT !.pc = "identity", !.token = "device", !.tokenUser = user,
                               !.useFork = TRUE,
                               !.auths = Append(@, [forced |-> FALSE, ok |-> TRUE]),
                               !.log = Append(@, "authenticateWithDeviceFlow")]
    /\ UNCHANGED notPub

\* getGitHubUsername(token)
PublishVerifyIdentity(valid) ==
    /\ pub.pc = "identity"
    /\ pub' = IF valid THEN [pub EXCEPT !.pc = "confirm", !.author = pub.tokenUser,
                                        !.log = Append(@, "getGitHubUsername")]
              ELSE [Exit("1") EXCEPT !.log = Append(@, "getGitHubUsername")]
    /\ UNCHANGED notPub

\* faulty variant: the answer to the prompt is not looked at
PublishConfirmIgnored(answer) ==
    /\ pub.pc = "confirm"
    /\ pub' = [pub EXCEPT !.pc = "attempt", !.confirmed = answer, !.log = Append(@, "prompt")]
    /\ UNCHANGED notPub

\* the confirmation prompt
PublishConfirm(answer) ==
    /\ pub.pc = "confirm"
    /\ pub' = IF answer THEN [pub EXCEPT !.pc = "attempt", !.confirmed = TRUE,
                                         !.log = Append(@, "prompt")]
              ELSE [Exit("0") EXCEPT !.log = Append(@, "prompt")]
    /\ UNCHANGED notPub

Attempt(outcome, tokenUser, useFork) ==
    [outcome |-> outcome, token |-> pub.token, tokenUser |-> tokenUser, useFork |-> useFork,
     author |-> pub.author,
     indexUpdate |-> IF outcome.origin = "index" THEN <<>>
                     ELSE updateIndex(pub.index, pub.author, PublishedName,
                                      pub.profile.contents)]

\* attemptPublish: the first doPublish and what its catch decides
PublishAttempt(outcome) ==
    /\ pub.pc = "attempt"
    /\ LET tried == [pub EXCEPT !.attempts = Append(@, Attempt(outcome, pub.tokenUser, pub.useFork)),
                                !.log = @ \o doPublishCalls(outcome)]
       IN  pub' = IF outcome.ok THEN [tried EXCEPT !.pc = "done", !.exit = "0"]
                  ELSE IF escalates(outcome, pub.useFork) THEN [tried EXCEPT !.pc = "forced_auth"]
                  ELSE [tried EXCEPT !.pc = "done", !.exit = "1"]
    /\ UNCHANGED notPub

\* attemptPublish: the forced authenticateWithDeviceFlow() of the fallback
PublishForcedAuth(user) ==
    /\ pub.pc = "forced_auth"
    /\ pub' = IF user = "none"
              THEN [Exit("threw") EXCEPT !.auths = Append(@, [forced |-> TRUE, ok |-> FALSE]),
                                         !.log = Append(@, "authenticateWithDeviceFlow")]
              ELSE [pub EXCEPT !.pc = "retry", !.token = "device", !.tokenUser = user,
                               !.auths = Append(@, [forced |-> TRUE, ok |-> TRUE]),
                               !.log = Append(@, "authenticateWithDeviceFlow")]
    /\ UNCHANGED notPub

\* faulty variant: the retry made in direct mode
PublishRetryDirect(outcome) ==
    /\ pub.pc = "retry"
    /\ pub' = [pub EXCEPT !.attempts = Append(@, Attempt(outcome, pub.tokenUser, FALSE)),
                          !.log = @ \o doPublishCalls(outcome),
                          !.pc = "done",
                          !.exit = IF outcome.ok THEN "0" ELSE "1"]
    /\ UNCHANGED notPub

\* attemptPublish: the retry with the device token and useFork: true
PublishRetry(outcome) ==
    /\ pub.pc = "retry"
    /\ pub' = [pub EXCEPT !.attempts = Append(@, Attempt(outcome, pub.tokenUser, TRUE)),
                          !.log = @ \o doPublishCalls(outcome),
                          !.pc = "done",
                          !.exit = IF outcome.ok THEN "0" ELSE "1"]
    /\ UNCHANGED notPub

NextPublish ==
    \/ PublishValidate
    \/ PublishCheckCredentials
    \/ \E user \in Users \cup {"none"} : PublishInteractiveAuth(user)
    \/ \E valid \in BOOLEAN : PublishVerifyIdentity(valid)
    \/ \E answer \in BOOLEAN : PublishConfirm(answer)
    \/ \E outcome \in PublishOutcomes : PublishAttempt(outcome)
    \/ \E user \in Users \cup {"none"} : PublishForcedAuth(user)
    \/ \E outcome \in PublishOutcomes : PublishRetry(outcome)

SpecPublish == InitPublish /\ [][NextPublish]_vars

-----------------------------------------------------------------------------
(* Properties of the allowlist walk (checked under SpecWalk)               *)

\* the forward-slash form of a path of a tree
RECURSIVE PathStr(_)
PathStr(p) == IF p = <<>> THEN "" ELSE IF Len(p) = 1 THEN p[1]
              ELSE PathStr(Parent(p)) \o "/" \o p[Len(p)]

NonEmptyPrefixes(p) == Prefixes(p) \ {<<>>}

\* an entry (by its path in the tree) matches some allow rule of the provider
MatchesAllowRule(prov, p) ==
    \E pattern \in Range(SafeIncludesOf(prov)) : AllowRuleMatches(pattern, p[Len(p)], PathStr(p))

\* an entry matches some rule of the provider's default deny list
MatchesDenyRule(prov, p) ==
    \E pattern \in Range(IF prov = "claude" THEN CLAUDE_EXCLUDES ELSE GITHUB_EXCLUDES) :
        IF prov = "claude" THEN ClaudeDenyRuleMatches(pattern, p[Len(p)], PathStr(p))
        ELSE GitHubDenyRuleMatches(pattern, p[Len(p)])

Archived == {PathOf(f) : f \in Range(archive.result.files)}

\* C4 (allowlist purity): with the default deny list, every path getFilesToArchive
\* returns matches at least one allow rule and no deny rule, and so does every
\* directory above it; random.txt, secrets/key.pem and .credentials are never returned.
C4_AllowlistPurity ==
    (archive.op = "getFilesToArchive" /\ ~archive.includeSecrets) =>
        /\ \A p \in Archived : \A q \in NonEmptyPrefixes(p) :
               MatchesAllowRule(provider, q) /\ ~MatchesDenyRule(provider, q)
        /\ Archived \cap {<<"random.txt">>, <<"secrets", "key.pem">>, <<".credentials">>} = {}
        /\ Archived \subseteq Files(configDir)

\* a walk with the default deny list over a directory that holds an allowed file,
\* a denied file inside an allowed directory and a file that is not allow-listed
C4_Witness ==
    /\ archive.op = "getFilesToArchive" /\ ~archive.includeSecrets
    /\ sep = "\\"
    /\ <<"commands", "a.md">> \in Archived
    /\ IsFile(configDir, <<"commands", "k.pem">>)
    /\ IsFile(configDir, <<"secrets", "key.pem">>)
    /\ IsFile(configDir, <<".credentials">>)

\* the regular files reachable through entries that each match an allow rule
ReachableAllowed(prov, t) ==
    {p \in Files(t) : \A q \in NonEmptyPrefixes(p) : MatchesAllowRule(prov, q)}

\* a name the secrets policy bans: .credentials, .auth, *.key, *.pem, *.secret, oauth_token*
CredentialLike(name) ==
    \/ name \in {".credentials", ".auth"}
    \/ EndsWith(name, ".key") \/ EndsWith(name, ".pem") \/ EndsWith(name, ".secret")
    \/ StartsWith(name, "oauth_token")

UnderPluginInfra(p) ==
    Len(p) >= 2 /\ p[1] = "plugins"
    /\ p[2] \in {"cache", "install-counts-cache", "installed_plugins",
                 "known_marketplaces", "marketplaces"}

\* C8 (secrets policy toggle, Claude): with includeSecrets the walk returns exactly
\* the regular files reachable through allow-listed entries; without, it returns a
\* subset of that which holds no credential-like name and nothing under the plugins
\* infrastructure directories.
C8_SecretsToggle ==
    (provider = "claude" /\ archive.op = "getFilesToArchive") =>
        IF archive.includeSecrets
        THEN Archived = ReachableAllowed("claude", configDir)
        ELSE /\ Archived \subseteq
                    {PathOf(f) : f \in Range(getFilesToArchive("claude", configDir, TRUE, sep).files)}
             /\ \A p \in Archived :
                    /\ \A i \in 1..Len(p) : ~CredentialLike(p[i])
                    /\ ~UnderPluginInfra(p)

\* includeSecrets = true captured a credential-like file and a plugins cache file
C8_Witness ==
    /\ provider = "claude" /\ archive.op = "getFilesToArchive" /\ archive.includeSecrets
    /\ <<"commands", "k.pem">> \in Archived
    /\ <<"plugins", "cache", "c.bin">> \in Archived
    /\ <<"plugins", "mine", "p.json">> \in Archived

\* C9 (subtree pruning): the walk lists (readdir) a directory other than the root and
\* stats an entry only if the entry matches an allow rule and, with the default deny
\* list, no deny rule; nothing at or beneath secrets/ or (default deny list)
\* plugins/cache/ is listed or stat-ed.
C9_SubtreePruning ==
    archive.op = "getFilesToArchive" =>
        LET touched == (archive.result.listed \ {<<>>}) \cup archive.result.statted
        IN  /\ \A p \in touched :
                   /\ MatchesAllowRule(provider, p)
                   /\ ~archive.includeSecrets => ~MatchesDenyRule(provider, p)
                   /\ ~IsPrefix(<<"secrets">>, p)
                   /\ ~archive.includeSecrets => ~IsPrefix(<<"plugins", "cache">>, p)
            /\ archive.result.listed \subseteq archive.result.statted \cup {<<>>}

\* a default walk that descended into plugins/ while secrets/ and plugins/cache/ exist
C9_Witness ==
    /\ archive.op = "getFilesToArchive" /\ ~archive.includeSecrets
    /\ <<"plugins", "mine">> \in archive.result.listed
    /\ IsFile(configDir, <<"plugins", "cache", "c.bin">>)
    /\ IsFile(configDir, <<"secrets", "key.pem">>)

-----------------------------------------------------------------------------
(* Properties of save and restore (checked under Spec)                     *)

\* the last operation was an extractSnapshot that returned without an error
ExtractSucceeded == call.op = "extractSnapshot" /\ pc = "idle" /\ call.err = ""

\* the target of the running / last extractSnapshot, now and when the call began
TargetNow == IF call.target = "config" THEN configDir ELSE scratchDir
TargetBefore == IF call.target = "config" THEN pre.config ELSE pre.scratch

\* a path of the target lies in the content set that cleanup removes
InCleanedSet(prov, p) ==
    /\ p # <<>>
    /\ IF prov = "claude"
       THEN \/ p[1] \in {"commands", "skills", "hooks", "mcp_servers", "agents",
                         "CLAUDE.md", "mcp.json"}
            \/ Len(p) >= 2 /\ p[1] = "plugins" /\ ~UnderPluginInfra(p)
       ELSE p[1] \in {"skills", "agents", "instructions", "copilot-instructions.md",
                      "mcp-config.json"}

\* C1 (merge, not replace): after a successful extractSnapshot every file the target
\* held before the restore that lies outside the cleaned content set and is not a path
\* of the incoming profile still exists with identical bytes.
C1_MergeNotReplace ==
    ExtractSucceeded =>
        \A p \in Files(TargetBefore) :
            (~InCleanedSet(provider, p) /\ ~Exists(pre.profile, p)) =>
                IsFile(TargetNow, p) /\ TargetNow[p] = TargetBefore[p]

\* a restore over a directory holding an unrelated file, a preserved plugins file and an
\* old content file, of a profile that brings content and none of the first two
C1_Witness ==
    /\ ExtractSucceeded /\ call.target = "config"
    /\ \E p \in Files(pre.config) : ~InCleanedSet(provider, p) /\ ~Exists(pre.profile, p)
                                      /\ Len(p) = 1
    /\ \E p \in Files(pre.config) : InCleanedSet(provider, p) /\ ~Exists(configDir, p)
    /\ \E p \in Files(pre.profile) : InCleanedSet(provider, p) /\ IsFile(configDir, p)
    /\ provider = "claude" => IsFile(pre.config, <<"plugins", "cache", "c.bin">>)
                              /\ ~Exists(pre.profile, <<"plugins">>)

\* C2 (infra preservation): cleanProfileContent leaves every plugins/ entry on the
\* preserve-list, and all beneath it, unchanged and removes every other plugins/ entry.
C2_InfraPreservation ==
    (provider = "claude" /\ call.op = "extractSnapshot" /\ pc = "copy") =>
        \A p \in DOMAIN TargetBefore :
            (Len(p) >= 2 /\ p[1] = "plugins") =>
                IF UnderPluginInfra(p)
                THEN Exists(TargetNow, p) /\ TargetNow[p] = TargetBefore[p]
                ELSE ~Exists(TargetNow, p)

\* cleanup ran on a directory with a preserved and a user-authored plugins entry
C2_Witness ==
    /\ provider = "claude" /\ call.op = "extractSnapshot" /\ pc = "copy"
    /\ IsFile(pre.config, <<"plugins", "cache", "c.bin">>)
    /\ IsFile(pre.config, <<"plugins", "mine", "p.json">>)
    /\ call.target = "config"

\* createSnapshot was called while the destination profile directory existed
SavedOverExisting == call.op = "createSnapshot" /\ Exists(pre.profile, <<>>)

NothingTouched ==
    /\ profileDir = pre.profile
    /\ metadata = pre.metadata
    /\ configDir = pre.config

\* C3 as claimed (no silent overwrite): createSnapshot into an existing destination
\* always fails with AlreadyExists, whatever the configuration directory, and changes
\* nothing.
C3_AlwaysAlreadyExists ==
    SavedOverExisting => call.err = "AlreadyExists" /\ NothingTouched

\* C3 as amended: createSnapshot into an existing destination always fails and changes
\* nothing; the error is AlreadyExists when the configuration directory exists and
\* NotFound when it does not.
C3_NoSilentOverwrite ==
    SavedOverExisting =>
        /\ call.err = IF Exists(pre.config, <<>>) THEN "AlreadyExists" ELSE "NotFound"
        /\ NothingTouched

\* a save over an existing profile that holds files, from an existing configuration
C3_Witness ==
    /\ SavedOverExisting
    /\ call.err = "AlreadyExists"
    /\ Files(pre.profile) # {}
    /\ \E p \in Files(pre.config) : MatchesAllowRule(provider, p) /\ ~Exists(pre.profile, p)

\* C6 (backup before destruction): in an extractSnapshot with a backupDir over an
\* existing target, whenever the target differs from its pre-restore tree the backup
\* holds a complete copy of that tree, and when copying the backup fails the call has
\* ended with an error and the target unchanged.
C6_BackupBeforeDestruction ==
    (call.op = "extractSnapshot" /\ call.withBackup /\ call.err # "InvalidProfile"
         /\ Exists(TargetBefore, <<>>)) =>
        /\ TargetNow # TargetBefore => backupDir = TargetBefore
        /\ pc # "idle" => backupDir = TargetBefore
        /\ call.backupFailed => pc = "idle" /\ call.err # "" /\ TargetNow = TargetBefore

\* the cleanup of a restore with backup has just removed content from the target
C6_Witness ==
    /\ call.op = "extractSnapshot" /\ call.withBackup /\ pc = "copy"
    /\ configDir # pre.config
    /\ Files(pre.config) # {}
    /\ backupDir = pre.config

\* the copy of the backup failed
C6_WitnessFailed ==
    /\ call.op = "extractSnapshot" /\ call.backupFailed
    /\ Files(pre.config) # {}

\* C7 (no stale user content): after a successful extractSnapshot, whatever was restored
\* into the target before, the files of the target inside the cleaned content set are
\* exactly the files of the restored profile inside that set, with the profile's bytes.
C7_NoStaleContent ==
    ExtractSucceeded =>
        \A p \in DOMAIN TargetNow \cup DOMAIN profileDir :
            InCleanedSet(provider, p) =>
                /\ IsFile(TargetNow, p) <=> IsFile(profileDir, p)
                /\ IsFile(TargetNow, p) => TargetNow[p] = profileDir[p]

\* a file an earlier profile had put into the content set is gone after the restore of
\* a profile that does not hold it, and the new profile's content is there
C7_Witness ==
    /\ ExtractSucceeded /\ call.target = "config"
    /\ \E p \in Files(pre.config) :
           /\ InCleanedSet(provider, p)
           /\ StartsWith(pre.config[p], "profile:")
           /\ ~Exists(profileDir, p) /\ ~Exists(configDir, p)
    /\ \E p \in Files(profileDir) : InCleanedSet(provider, p) /\ IsFile(configDir, p)

\* C10 (save then restore): createSnapshot of D without includeSecrets followed by
\* extractSnapshot of that profile into a fresh directory T yields a T whose files are
\* exactly metadata.files, each with the bytes it has in D: no metadata file, no
\* deny-listed and no non-allow-listed entry.
C10_SaveThenRestore ==
    (ExtractSucceeded /\ call.target = "scratch" /\ metadata.origin = "created"
         /\ ~metadata.includesSecrets) =>
        /\ Files(scratchDir) = {Split(f, "/") : f \in Range(metadata.files)}
        /\ \A p \in Files(scratchDir) :
               /\ IsFile(metadata.from, p) /\ scratchDir[p] = metadata.from[p]
               /\ \A q \in NonEmptyPrefixes(p) :
                      MatchesAllowRule(provider, q) /\ ~MatchesDenyRule(provider, q)
        /\ ~Exists(scratchDir, <<"profile.json">>)

\* the restored profile was saved from a directory holding an instructions file, a
\* content file and files the snapshot leaves out
C10_Witness ==
    /\ ExtractSucceeded /\ call.target = "scratch" /\ metadata.origin = "created"
    /\ ~metadata.includesSecrets
    /\ Cardinality(Files(scratchDir)) = 2
    /\ Cardinality(Files(metadata.from)) = 3
    /\ \E p \in Files(metadata.from) : MatchesDenyRule(provider, p) \/ ~MatchesAllowRule(provider, p)
    /\ Files(scratchDir) \subseteq Files(metadata.from)

-----------------------------------------------------------------------------
(* Properties of the publish orchestration (checked under SpecPublish)     *)

ForcedAuths == SelectSeq(pub.auths, LAMBDA a : a.forced)

Logged == {pub.log[i] : i \in 1..Len(pub.log)}

\* the position of the first occurrence of a call in the log (0 when it is not there)
FirstAt(c) ==
    IF c \in Logged THEN CHOOSE i \in 1..Len(pub.log) :
                             pub.log[i] = c /\ \A j \in 1..(i - 1) : pub.log[j] # c
    ELSE 0

\* C11 (publish gated by identity and confirmation): the marketplace index is fetched and
\* the pull request submitted only after the token's identity was verified and the user
\* confirmed at the prompt; a failed identity verification ends the invocation with exit
\* code 1 before any prompt, and a declined prompt ends it with exit code 0 and no
\* publish attempt.
C11_PublishGated ==
    /\ (Logged \cap {"fetchRepoIndex", "createProfilePR"} # {} \/ pub.attempts # <<>>) =>
           /\ pub.author # "none" /\ pub.confirmed
           /\ 0 < FirstAt("getGitHubUsername")
           /\ FirstAt("getGitHubUsername") < FirstAt("prompt")
           /\ FirstAt("prompt") < FirstAt("fetchRepoIndex")
    /\ ("getGitHubUsername" \in Logged /\ pub.author = "none") =>
           /\ pub.pc = "done" /\ pub.exit = "1"
           /\ "prompt" \notin Logged /\ pub.attempts = <<>>
    /\ ("prompt" \in Logged /\ ~pub.confirmed) =>
           /\ pub.pc = "done" /\ pub.exit = "0"
           /\ pub.attempts = <<>>
           /\ Logged \cap {"fetchRepoIndex", "createProfilePR"} = {}

\* the pull request was submitted by a verified and confirming user
C11_Witness ==
    /\ Len(pub.attempts) = 1 /\ pub.attempts[1].outcome.ok
    /\ pub.confirmed /\ pub.author = "bob"
    /\ "createProfilePR" \in Logged

\* the user declined at the prompt
C11_WitnessDeclined == "prompt" \in Logged /\ ~pub.confirmed /\ pub.exit = "0"

\* C12 (credential mode): a submission in direct mode uses the cached credential, a
\* submission in fork mode uses a token that interactive authentication returned in this
\* invocation; interactive authentication runs ahead of the identity check exactly when
\* there is no cached credential; a failed attempt in fork mode is the last thing the
\* invocation does: no authentication and no attempt follows it.
C12_CredentialMode ==
    /\ \A i \in 1..Len(pub.attempts) :
           LET a == pub.attempts[i]
           IN  /\ ~a.useFork => a.token = "cached" /\ pub.cachedUser # "none"
                                /\ a.tokenUser = pub.cachedUser
               /\ a.useFork => /\ a.token = "device"
                               /\ \E k \in 1..Len(pub.auths) : pub.auths[k].ok
                               /\ \E j, k \in 1..Len(pub.log) :
                                      /\ j < k
                                      /\ pub.log[j] = "authenticateWithDeviceFlow"
                                      /\ pub.log[k] = "fetchRepoIndex"
               /\ (a.useFork /\ ~a.outcome.ok) =>
                      /\ i = Len(pub.attempts)
                      /\ pub.pc = "done" /\ pub.exit = "1"
                      /\ pub.log[Len(pub.log)] \in {"fetchRepoIndex", "createProfilePR"}
    /\ "getGitHubUsername" \in Logged =>
           ((pub.auths # <<>> /\ ~pub.auths[1].forced) <=> pub.cachedUser = "none")
    /\ (\E k \in 1..Len(pub.auths) : ~pub.auths[k].forced) =>
           /\ pub.cachedUser = "none"
           /\ pub.log[1] = "getGitHubToken" /\ pub.log[2] = "authenticateWithDeviceFlow"

\* without a cached credential the one attempt was made in fork mode and was rejected
C12_Witness ==
    /\ pub.cachedUser = "none"
    /\ Len(pub.attempts) = 1 /\ pub.attempts[1].useFork
    /\ ~pub.attempts[1].outcome.ok /\ pub.attempts[1].outcome.has403
    /\ pub.pc = "done"

\* with a cached credential: direct mode first, fork mode with the device token second
C12_WitnessBoth ==
    /\ Len(pub.attempts) = 2
    /\ pub.attempts[1].token = "cached" /\ pub.attempts[2].token = "device"

\* C13 (content check precedes credentials): a profile whose metadata has no contents
\* mapping or only empty buckets ends the invocation with exit code 1 before any call to
\* the credential source, the device flow, the identity service or the marketplace,
\* whatever credential is cached; a missing profile directory, and then missing metadata,
\* are rejected by earlier checks.
C13_ContentCheckFirst ==
    pub.pc # "start" =>
        /\ (pub.profile.exists /\ pub.profile.meta = "ok" /\ ~hasContent(pub.profile.contents)) =>
               /\ pub.pc = "done" /\ pub.exit = "1" /\ pub.reason = "NoContent"
               /\ pub.log = <<>> /\ pub.auths = <<>> /\ pub.attempts = <<>>
        /\ ~pub.profile.exists =>
               /\ pub.pc = "done" /\ pub.exit = "1" /\ pub.reason = "NotFound"
               /\ pub.log = <<>> /\ pub.auths = <<>> /\ pub.attempts = <<>>
        /\ (pub.profile.exists /\ pub.profile.meta = "none") =>
               /\ pub.pc = "done" /\ pub.exit = "1" /\ pub.reason = "MissingMetadata"
               /\ pub.log = <<>> /\ pub.auths = <<>> /\ pub.attempts = <<>>
        /\ pub.log # <<>> => hasContent(pub.profile.contents)

\* a profile with one empty bucket was rejected while a credential was cached
C13_Witness ==
    /\ pub.profile.meta = "ok" /\ DOMAIN pub.profile.contents = {"commands"}
    /\ ~hasContent(pub.profile.contents)
    /\ pub.cachedUser = "alice"
    /\ pub.pc = "done" /\ pub.reason = "NoContent"

-----------------------------------------------------------------------------
(* Properties of the restore precondition (checked under Spec)             *)

\* the profile of the extractSnapshot call was missing, had no metadata file, or had a
\* metadata file that does not parse
ProfileWasInvalid ==
    \/ ~Exists(pre.profile, <<>>)
    \/ ~Exists(pre.profile, MetadataFile)
    \/ pre.profile[MetadataFile] = CorruptJson

\* C14 (invalid profile precondition), as the claim states it: extractSnapshot fails with
\* InvalidProfile whenever the profile directory does not exist, has no metadata file or
\* has a metadata file that does not parse, and then the target directory is unchanged
\* and no backup is made.
C14_InvalidProfileRejected ==
    (call.op = "extractSnapshot" /\ ProfileWasInvalid) =>
        /\ call.err = "InvalidProfile"
        /\ TargetNow = TargetBefore
        /\ backupDir = NoDir

-----------------------------------------------------------------------------
(* Properties of the merge-copy under write failures (under SpecRestore)   *)

\* the copy step of extractSnapshot ran against a write failure of the given code
CopyHit(code) ==
    /\ call.op = "extractSnapshot" /\ pc = "idle"
    /\ \E f \in DOMAIN call.fault : call.fault[f] = code

\* C15 (locked file), as the claim states it: for either provider a destination write
\* refused with EBUSY, at any depth, makes extractSnapshot fail with the distinct
\* locked-file error naming the file; any other I/O error propagates unchanged.
C15_LockedFileReported ==
    /\ CopyHit("EBUSY") =>
           \E f \in DOMAIN call.fault : call.err = "Locked:" \o f[Len(f)]
    /\ CopyHit("EACCES") => call.err = "EACCES"

-----------------------------------------------------------------------------
(* Properties of the categorizer (checked under SpecDerive)                *)

\* the reference categorizer: what one path contributes, "" as category for nothing
RefEntry(prov, file, psep) ==
    LET normalized == SplitJoin(file, psep, "/")
        parts == Split(normalized, "/")
    IN  IF normalized = InstructionsFile(prov)
        THEN [category |-> "instructions", item |-> normalized]
        ELSE IF normalized = McpFile(prov)
        THEN [category |-> "mcp", item |-> normalized]
        ELSE IF Len(parts) >= 2
        THEN [category |-> parts[1], item |-> StripExtension(parts[2])]
        ELSE [category |-> "", item |-> ""]

\* a sequence without its repetitions: first occurrence wins, order kept
RECURSIVE Dedup(_)
Dedup(items) ==
    IF items = <<>> THEN <<>>
    ELSE LET front == Dedup(SubSeq(items, 1, Len(items) - 1))
             last == items[Len(items)]
         IN  IF last \in Range(front) THEN front ELSE Append(front, last)

\* the items the paths contribute to one category, in order
RECURSIVE ItemsOf(_, _, _, _)
ItemsOf(prov, files, psep, category) ==
    IF files = <<>> THEN <<>>
    ELSE LET e == RefEntry(prov, Head(files), psep)
             rest == ItemsOf(prov, Tail(files), psep, category)
         IN  IF e.category = category THEN <<e.item>> \o rest ELSE rest

\* the reference categorizer
Categorize(prov, files, psep) ==
    LET categories == {RefEntry(prov, files[i], psep).category : i \in 1..Len(files)} \ {""}
    IN  [c \in categories |-> Dedup(ItemsOf(prov, files, psep, c))]

\* C16 (deriveContents equals the reference categorizer), as the claim states it: for
\* every sequence of paths, repeated paths included, a singleton file yields its fixed
\* bucket holding just itself, any other path of two or more segments adds its second
\* segment without extension to the category of its first segment, deduplicated in
\* insertion order, a one-segment path that is no singleton adds nothing, and the empty
\* sequence yields the empty mapping.
C16_DeriveEqualsReference ==
    archive.op = "deriveContents" =>
        archive.contents = Categorize(provider, archive.files, sep)

-----------------------------------------------------------------------------
(* Properties of the metadata a save writes (checked under SpecSave)       *)

\* createSnapshot returned normally and wrote the metadata record
SaveSucceeded == call.op = "createSnapshot" /\ call.err = "" /\ metadata.origin = "created"

\* the server names of the live mcp.json of the saved configuration directory
LiveServerNames == readMcpServers(pre.config).names

\* C17 (contents derived from files): in the metadata record of every successful
\* createSnapshot the contents mapping is deriveContents(files), except that for the
\* Claude provider the mcp bucket may hold the server names of the live mcp.json; and
\* every path of files passes the provider's matcher: each of its components matches an
\* allow rule and, unless secrets were asked for, no deny rule.
C17_ContentsDerived ==
    SaveSucceeded =>
        LET derived == deriveContents(provider, metadata.files, sep)
        IN  /\ DOMAIN metadata.contents = DOMAIN derived
            /\ \A c \in DOMAIN derived :
                   \/ metadata.contents[c] = derived[c]
                   \/ /\ provider = "claude" /\ c = "mcp"
                      /\ LiveServerNames # <<>>
                      /\ metadata.contents[c] = LiveServerNames
            /\ \A i \in 1..Len(metadata.files) :
                   \A q \in NonEmptyPrefixes(PathOf(metadata.files[i])) :
                       /\ MatchesAllowRule(provider, q)
                       /\ ~metadata.includesSecrets => ~MatchesDenyRule(provider, q)

\* a save on a Windows host whose files fill two buckets, the mcp one with server names
C17_Witness ==
    /\ SaveSucceeded /\ provider = "claude" /\ sep = "\\"
    /\ "commands" \in DOMAIN metadata.contents
    /\ "mcp" \in DOMAIN metadata.contents /\ metadata.contents["mcp"] = <<"s1", "s2">>

-----------------------------------------------------------------------------
(* Properties of the index update (checked under SpecPublish)              *)

\* the attempts whose doPublish handed an updated index to createProfilePR
Submitted == {i \in 1..Len(pub.attempts) : pub.attempts[i].outcome.origin = "pr"}

\* C18 (index update on publish): the index submitted with the pull request holds exactly
\* one entry for the published (author, name) pair; it is the last one, carries the
\* publish timestamp, the profile's contents and downloads = stars = 0; the entries of
\* the fetched index with another pair are all kept, unchanged and in their order.
C18_IndexUpdate ==
    \A i \in Submitted :
        LET a == pub.attempts[i]
            u == a.indexUpdate
            mine(e) == e.author = a.author /\ e.name = PublishedName
        IN  /\ Len(u) >= 1
            /\ Cardinality({k \in 1..Len(u) : mine(u[k])}) = 1
            /\ mine(u[Len(u)])
            /\ u[Len(u)].createdAt = PublishedAt
            /\ u[Len(u)].contents = pub.profile.contents
            /\ u[Len(u)].downloads = 0 /\ u[Len(u)].stars = 0
            /\ SubSeq(u, 1, Len(u) - 1) = SelectSeq(pub.index, LAMBDA e : ~mine(e))

\* bob republished p while the fetched index held bob's p and then alice's p
C18_Witness ==
    /\ Submitted # {}
    /\ pub.author = "bob"
    /\ Len(pub.index) = 2
    /\ pub.index[1].author = "bob" /\ pub.index[1].name = PublishedName
    /\ pub.index[2].author = "alice" /\ pub.index[2].name = PublishedName

-----------------------------------------------------------------------------
(* Properties of failed authentication (checked under SpecPublish)         *)

\* interactive device-flow authentication threw in this invocation
AuthThrew == \E k \in 1..Len(pub.auths) : ~pub.auths[k].ok

\* C19 (authentication failure is fatal and reported), as the claim states it: when the
\* device flow throws, in the initial path or in the forced escalation, the orchestrator
\* catches the failure and ends the invocation with a non-zero exit code of its own,
\* and nothing is attempted afterwards.
C19_AuthFailureFatal ==
    AuthThrew =>
        /\ pub.pc = "done" /\ pub.exit = "1"
        /\ pub.log[Len(pub.log)] = "authenticateWithDeviceFlow"
        /\ ~pub.auths[Len(pub.auths)].ok

-----------------------------------------------------------------------------
(* Properties of the MCP enrichment (checked under SpecSave)               *)

\* the server names a directory's mcp.json configures: none when the file is missing,
\* is not a readable file, does not parse or names no server
ConfiguredServers(dir) ==
    IF ~IsFile(dir, <<"mcp.json">>) THEN <<>>
    ELSE IF dir[<<"mcp.json">>] = "{mcpServers:{s1,s2}}" THEN <<"s1", "s2">>
    ELSE IF dir[<<"mcp.json">>] = "{s3}" THEN <<"s3">>
    ELSE <<>>

\* the enriched contents are the derived ones but for the mcp bucket, which holds the
\* configured server names when there are any and the fallback otherwise
EnrichedAsStated(contents, files, dir) ==
    LET derived == deriveContents("claude", files, sep)
    IN  /\ DOMAIN contents = DOMAIN derived
        /\ \A c \in DOMAIN derived \ {"mcp"} : contents[c] = derived[c]
        /\ "mcp" \in DOMAIN derived =>
               contents["mcp"] = IF ConfiguredServers(dir) # <<>> THEN ConfiguredServers(dir)
                                 ELSE derived["mcp"]

C20_WitnessUnreadable ==
    /\ archive.op = "deriveContentsWithMcp"
    /\ IsDirectory(configDir, <<"mcp.json">>)
    /\ archive.contents["mcp"] = <<"mcp.json">>

-----------------------------------------------------------------------------
(* Command dispatch: the command line resolves the provider (getProvider)   *)
(* and every command asks getProviderFactory for that provider's factory.   *)

\* the commands that take --provider, by the function of commands/ each calls
Commands ==
    {"saveProfile", "loadProfile", "listLocalProfiles", "deleteLocalProfile",
     "showProfileInfo", "showMarketplaceInfo", "listMarketplace", "searchMarketplace",
     "installFromMarketplace", "publishProfile"}

\* values of --provider tried ("" is the flag left out)
ProviderOptions == {"", "claude", "github", "GitHub", "CLAUDE", "gitlab"}

\* values of defaultProvider in config.json ("" is none)
DefaultProviders == {"", "claude", "github"}

UpperCase == "ABCDEFGHIJKLMNOPQRSTUVWXYZ"
LowerCase == "abcdefghijklmnopqrstuvwxyz"

\* String.prototype.toLowerCase on ASCII text
RECURSIVE toLowerCase(_)
toLowerCase(s) ==
    IF s = "" THEN ""
    ELSE LET c == SubSeq(s, 1, 1)
             hits == {i \in 1..Len(UpperCase) : SubSeq(UpperCase, i, i) = c}
         IN (IF hits = {} THEN c
             ELSE LET i == CHOOSE i \in hits : TRUE IN SubSeq(LowerCase, i, i))
            \o toLowerCase(SubSeq(s, 2, Len(s)))

\* getProvider(options): the provider, or exit code 1 for a value that is neither
getProvider(option, defaultProvider) ==
    IF option # ""
    THEN LET p == toLowerCase(option)
         IN IF p # "claude" /\ p # "github"
            THEN [provider |-> "", exit |-> 1]
            ELSE [provider |-> p, exit |-> 0]
    ELSE IF defaultProvider # ""
         THEN [provider |-> defaultProvider, exit |-> 0]
         ELSE [provider |-> "claude", exit |-> 0]

\* getProviderFactory(type): getType() of the factory returned, or the error thrown
getProviderFactory(type) ==
    IF type = "claude"
    THEN [type |-> "claude", err |-> ""]
    ELSE IF type = "github"
         THEN [type |-> "", err |-> "GitHub provider not implemented yet"]
         ELSE [type |-> "", err |-> "Unknown provider type"]

InitDispatch ==
    /\ provider = "claude"
    /\ sep = "/"
    /\ configDir = NoDir
    /\ profileDir = NoDir
    /\ metadata = NoMeta
    /\ scratchDir = NoDir
    /\ backupDir = NoDir
    /\ pc = "idle"
    /\ call \in {[op |-> "none", option |-> o, defaultProvider |-> d, requested |-> "",
                  factoryType |-> "", err |-> "", exit |-> 0] :
                     o \in ProviderOptions, d \in DefaultProviders}
    /\ pre = NoPre
    /\ archive = NoArchive
    /\ pub = NoPub

\* one command of the command line, up to the factory it obtains
Dispatch(command) ==
    /\ call.op = "none"
    /\ LET got == getProvider(call.option, call.defaultProvider)
           factory == getProviderFactory(got.provider)
       IN call' = IF got.exit # 0
                  THEN [call EXCEPT !.op = command, !.exit = got.exit]
                  ELSE [call EXCEPT !.op = command, !.requested = got.provider,
                                    !.factoryType = factory.type, !.err = factory.err]
    /\ UNCHANGED <<provider, sep, configDir, profileDir, metadata, scratchDir, backupDir,
                   pc, pre, archive, pub>>

NextDispatch == \E command \in Commands : Dispatch(command)

SpecDispatch == InitDispatch /\ [][NextDispatch]_vars

\* C21 (every command works for both providers): a command run for provider claude or
\* github obtains a factory whose getType() is that provider, and getProviderFactory
\* raises no error.
C21_BothProviders ==
    (call.op \in Commands /\ call.requested \in {"claude", "github"})
        => /\ call.err = ""
           /\ call.factoryType = call.requested

-----------------------------------------------------------------------------
(* Properties of a load of a stored GitHub Copilot profile (checked under Spec) *)

\* the name the stored profile was saved under: profileDir is
\* join(githubProfilesDir, name)
LoadedName == "my-setup"

UnderLoadedName(p) == IsPrefix(<<LoadedName>>, p)

GitHubLoaded ==
    /\ provider = "github"
    /\ call.op = "extractSnapshot"
    /\ call.target = "config"
    /\ pc = "idle"
    /\ call.err = ""

\* C22 (GitHub load location): a completed load of the stored GitHub Copilot profile N
\* has put every file of the profile under <githubDir>/N/, and every entry of githubDir
\* outside that subdirectory is as it was before the load, none removed, written or added.
C22_GitHubLoadLocation ==
    GitHubLoaded =>
        /\ \A f \in Files(profileDir) \ {MetadataFile} :
               /\ IsFile(configDir, <<LoadedName>> \o f)
               /\ configDir[<<LoadedName>> \o f] = profileDir[f]
        /\ \A p \in (DOMAIN configDir \cup DOMAIN pre.config) \ {<<>>} :
               ~UnderLoadedName(p) =>
                   /\ p \in DOMAIN configDir
                   /\ p \in DOMAIN pre.config
                   /\ configDir[p] = pre.config[p]

-----------------------------------------------------------------------------
(* Saves that may fail partway: the configuration directory may hold one   *)
(* file that cannot be read.  One profile name, not yet used at the start. *)

\* a configuration directory, none or one of its files unreadable
FaultyConfigTrees(prov) ==
    ConfigTrees(prov) \cup
    UNION {{[t EXCEPT ![f] = Unreadable] : t \in {u \in ConfigTrees(prov) : f \in DOMAIN u}} :
              f \in ConfigLeaves(prov)}

InitFailedSave ==
    /\ provider \in {"claude", "github"}
    /\ sep = "/"
    /\ configDir \in FaultyConfigTrees(provider)
    /\ profileDir = NoDir
    /\ metadata = NoMeta
    /\ scratchDir = NoDir
    /\ backupDir = NoDir
    /\ pc = "idle"
    /\ call = NoCall
    /\ pre = NoPre
    /\ archive = NoArchive
    /\ pub = NoPub

\* the filter of listLocalProfiles applied to the entry of the profile's name: a
\* directory that holds a profile.json
listLocalProfiles(profile) == IsDirectory(profile, <<>>) /\ Exists(profile, MetadataFile)

\* listLocalProfiles()
ListLocalProfiles ==
    /\ pc = "idle"
    /\ archive' = [op |-> "listLocalProfiles", profile |-> profileDir,
                   listed |-> listLocalProfiles(profileDir)]
    /\ UNCHANGED <<provider, sep, configDir, profileDir, metadata, scratchDir, backupDir,
                   pc, call, pre, pub>>

NextFailedSave ==
    \/ \E includeSecrets \in BOOLEAN : CreateSnapshot(includeSecrets)
    \/ ListLocalProfiles
    \/ \E which \in {"config", "scratch"} : ExtractStart(which, FALSE, "", NoDir)
    \/ ExtractClean
    \/ ExtractCopy(NoFault)
    \/ DeleteProfile

SpecFailedSave == InitFailedSave /\ [][NextFailedSave]_vars

-----------------------------------------------------------------------------
(* Properties of failed saves (checked under SpecFailedSave)                *)

\* the last operation was a createSnapshot that failed after its preconditions held
SaveFailedPartway ==
    /\ call.op = "createSnapshot"
    /\ call.err \notin {"", "NotFound", "AlreadyExists"}

\* C23 (metadata is written last): a profile directory that holds a profile.json written
\* by createSnapshot holds every file the record lists, and a createSnapshot that failed
\* partway has left no profile.json.
C23_MetadataLast ==
    /\ (Exists(profileDir, MetadataFile) /\ metadata.origin = "created") =>
           \A i \in DOMAIN metadata.files : IsFile(profileDir, PathOf(metadata.files[i]))
    /\ SaveFailedPartway => ~Exists(profileDir, MetadataFile) /\ metadata.origin # "created"

\* a save that failed on its second file: the first file is in the profile directory
C23_Witness ==
    /\ SaveFailedPartway
    /\ call.err = "EACCES"
    /\ Files(profileDir) # {}

\* a completed save of two files or more
C23_WitnessComplete ==
    /\ call.op = "createSnapshot" /\ call.err = ""
    /\ Len(metadata.files) >= 2
    /\ Exists(profileDir, MetadataFile)

\* the profile directory as a failed save leaves it: present, without a profile.json
Partial(profile) == Exists(profile, <<>>) /\ ~Exists(profile, MetadataFile)

\* C26 (a failed save permanently occupies its name): a createSnapshot that failed
\* partway leaves its partial directory in place; while the directory is there, no step
\* other than a delete changes it, a createSnapshot for the name fails with
\* AlreadyExists, an extractSnapshot of it fails with InvalidProfile, and
\* listLocalProfiles does not list it.
C26_FailedSaveOccupiesName ==
    /\ [](SaveFailedPartway => Partial(profileDir))
    /\ [][Partial(profileDir) =>
            \/ call'.op = "deleteLocalProfile" /\ call' # call
            \/ /\ profileDir' = profileDir
               /\ (call' # call /\ call'.op = "createSnapshot") => call'.err = "AlreadyExists"
               /\ (call' # call /\ call'.op = "extractSnapshot") =>
                      call'.err = "InvalidProfile" /\ pc' = "idle"
               /\ (archive'.op = "listLocalProfiles" /\ archive'.profile = profileDir) =>
                      ~archive'.listed]_vars

\* a second save under the name of a save that failed partway was rejected, the partial
\* directory with its one copied file still in place
C26_Witness ==
    /\ call.op = "createSnapshot" /\ call.err = "AlreadyExists"
    /\ Partial(pre.profile) /\ Files(pre.profile) # {}
    /\ profileDir = pre.profile
    /\ archive.op = "listLocalProfiles" /\ archive.profile = profileDir

\* a restore of the name of a save that failed partway was rejected
C26_WitnessRestore ==
    /\ call.op = "extractSnapshot" /\ call.err = "InvalidProfile"
    /\ Partial(profileDir) /\ Files(profileDir) # {}

-----------------------------------------------------------------------------
(* Properties of the fallback of the publish orchestration (checked under  *)
(* SpecPublish)                                                            *)

\* the failure is the pull-request service refusing the submission for lack of access
AccessScopeRejection(outcome) == ~outcome.ok /\ outcome.origin = "pr" /\ outcome.has403

\* the orchestrator went on to the forced interactive authentication
Escalated == pub.pc \in {"forced_auth", "retry"} \/ ForcedAuths # <<>>

\* C24 (escalation trigger): after a failed publish attempt in direct mode the
\* orchestrator escalates to interactive authentication exactly when the failure is an
\* access-scope rejection of the pull-request submission; any other failure, a failed
\* index fetch included, ends the invocation with exit code 1 after that one attempt.
C24_EscalationTrigger ==
    (Len(pub.attempts) >= 1 /\ ~pub.attempts[1].useFork /\ ~pub.attempts[1].outcome.ok) =>
        /\ Escalated <=> AccessScopeRejection(pub.attempts[1].outcome)
        /\ ~Escalated => pub.pc = "done" /\ pub.exit = "1" /\ Len(pub.attempts) = 1

\* C27 (published author matches the submitting credential): in every pull-request
\* submission of an invocation, the retry included, the author recorded in the metadata
\* and the index entry is the identity of the user the submitting token belongs to.
C27_AuthorMatchesCredential ==
    \A i \in DOMAIN pub.attempts :
        pub.attempts[i].outcome.origin = "pr" =>
            /\ pub.attempts[i].author = pub.attempts[i].tokenUser
            /\ pub.attempts[i].indexUpdate[Len(pub.attempts[i].indexUpdate)].author
                   = pub.attempts[i].tokenUser

-----------------------------------------------------------------------------
(* Properties of a complete restore (checked under Spec)                    *)

\* C25 (tool-managed state survives a complete restore): after a successful
\* extractSnapshot of a stored Claude profile, whatever the profile holds, every file
\* the target had beneath a preserve-listed plugins subdirectory is still there with
\* the bytes it had before the restore.
C25_ToolStateSurvives ==
    (provider = "claude" /\ ExtractSucceeded) =>
        \A p \in Files(TargetBefore) :
            UnderPluginInfra(p) => IsFile(TargetNow, p) /\ TargetNow[p] = TargetBefore[p]

-----------------------------------------------------------------------------
(* Marketplace install: installFromMarketplace(author/name) downloads the    *)
(* profile's profile.json and writes each file its files list names.  The  *)
(* target directory is configDir; writes that land elsewhere on the disk   *)
(* are recorded by their absolute path.                                    *)

\* the longest files list of a downloaded profile.json
MaxManifestLen == 2

\* the name part of the author/name argument
InstallName == "team"

\* config.claudeDir and config.githubDir as absolute paths
ClaudeDirPath == <<"home", ".claude">>
GitHubDirPath == <<"project", ".github">>

\* the directory an install writes to: claudeDir, or destDir = join(githubDir, name)
InstallBase(prov) ==
    IF prov = "claude" THEN ClaudeDirPath ELSE Append(GitHubDirPath, InstallName)

\* the entries a downloaded files list may hold
ManifestPaths ==
    {"CLAUDE.md", "commands/a.md", "skills\\s.md", "./hooks/h.md", "/etc/passwd",
     "../evil.sh", "commands/../../.bashrc"}

Manifests == SeqsUpTo(ManifestPaths, MaxManifestLen)

\* the normalisation of path.join: "" and "." segments dropped, ".." drops the segment
\* before it, and stays at the root when there is none
RECURSIVE normalizeOnto(_, _)
normalizeOnto(stack, segments) ==
    IF segments = <<>> THEN stack
    ELSE LET h == Head(segments)
         IN  normalizeOnto(IF h \in {"", "."} THEN stack
                           ELSE IF h = ".." THEN (IF stack = <<>> THEN <<>> ELSE Parent(stack))
                           ELSE Append(stack, h),
                           Tail(segments))

\* path.join(dir, filePath) for an absolute dir and a forward-slash filePath
joinOnto(dir, filePath) == normalizeOnto(dir, Split(filePath, "/"))

\* the download loop of installFromMarketplace: fetch, join, mkdirSync(dirname),
\* writeFileSync; the fetch of file number failAt is answered with an error status
RECURSIVE installFiles(_, _, _, _, _)
installFiles(base, files, i, failAt, acc) ==
    IF i > Len(files) \/ acc.err # "" THEN acc
    ELSE LET destPath == joinOnto(base, files[i])
             rel == SubSeq(destPath, Len(base) + 1, Len(destPath))
             made == mkdirSync(acc.fs, Parent(rel))
             wrote == IF made.err # "" THEN made
                      ELSE writeFileSync(made.fs, rel, "market:" \o files[i])
             next == IF i = failAt THEN [acc EXCEPT !.err = "Failed to download"]
                     ELSE IF ~IsPrefix(base, destPath)
                     THEN [acc EXCEPT !.written = Append(@, destPath)]
                     ELSE [fs |-> wrote.fs, err |-> wrote.err,
                           written |-> IF wrote.err = "" THEN Append(acc.written, destPath)
                                       ELSE acc.written]
         IN  installFiles(base, files, i + 1, failAt, next)

\* installFromMarketplace once profile.json is downloaded: the files list with its
\* backslashes replaced, the backup, mkdirSync and cleanup of the target, the loop
installProfile(prov, target, manifest, backup, failAt) ==
    LET files == [i \in DOMAIN manifest |-> SplitJoin(manifest[i], "\\", "/")]
        saved == IF backup /\ Exists(target, <<>>) THEN cpSync(target, NoDir).fs ELSE NoDir
        made == mkdirSync(target, <<>>)
        cleaned == IF made.err # "" THEN made ELSE cleanTarget(prov, made.fs)
        start == [fs |-> cleaned.fs, err |-> cleaned.err, written |-> <<>>]
        done == installFiles(InstallBase(prov), files, 1, failAt, start)
    IN  IF files = <<>>
        THEN [fs |-> target, err |-> "NoFiles", written |-> <<>>, backup |-> NoDir]
        ELSE [fs |-> done.fs, err |-> done.err, written |-> done.written, backup |-> saved]

\* the target directory before an install
InstallTargets(prov) ==
    {NoDir} \cup {TreeOf(S, "user") : S \in UpTo(ConfigLeaves(prov), 1)}

InitInstall ==
    /\ provider \in {"claude", "github"}
    /\ sep = "/"
    /\ configDir \in InstallTargets(provider)
    /\ profileDir = NoDir
    /\ metadata = NoMeta
    /\ scratchDir = NoDir
    /\ backupDir = NoDir
    /\ pc = "idle"
    /\ call = NoCall
    /\ pre = NoPre
    /\ archive \in {[op |-> "none", files |-> m, written |-> <<>>] : m \in Manifests}
    /\ pub = NoPub

\* installFromMarketplace(profilePath, options) for the downloaded files list
InstallFromMarketplace(backup, failAt) ==
    /\ archive.op = "none"
    /\ failAt <= Len(archive.files)
    /\ LET r == installProfile(provider, configDir, archive.files, backup, failAt)
       IN  /\ configDir' = r.fs
           /\ backupDir' = r.backup
           /\ call' = Called("installFromMarketplace", "config", backup, FALSE, r.err)
           /\ archive' = [op |-> "installFromMarketplace", files |-> archive.files,
                          written |-> r.written]
    /\ pre' = Snapshot
    /\ UNCHANGED <<provider, sep, profileDir, metadata, scratchDir, pc, pub>>

NextInstall ==
    \E backup \in BOOLEAN, failAt \in 0..MaxManifestLen : InstallFromMarketplace(backup, failAt)

SpecInstall == InitInstall /\ [][NextInstall]_vars

\* C28 (marketplace install stays inside the target): every file written by
\* installFromMarketplace, whatever the downloaded files list holds, lies inside the
\* provider's target directory (claudeDir, or githubDir/<name>).
C28_InstallConfined ==
    archive.op = "installFromMarketplace" =>
        \A i \in DOMAIN archive.written : IsPrefix(InstallBase(provider), archive.written[i])

-----------------------------------------------------------------------------
(* Delete by name: deleteLocalProfile(name) on the home directory.  In this *)
(* specification profileDir holds the tree of the home directory, with the *)
(* profile stores beneath .cli-profiles.                                   *)

\* PATHS.base, PATHS.claude, PATHS.github and PATHS.cache, from the home directory
BaseDirPath == <<".cli-profiles">>
ProfilesDirPath(prov) == Append(BaseDirPath, prov)
CacheDirPath == Append(BaseDirPath, ".cache")

\* the files the home directory may hold
HomeLeaves ==
    {<<".cli-profiles", "claude", "p1", "profile.json">>,
     <<".cli-profiles", "claude", "p1", "commands", "a.md">>,
     <<".cli-profiles", "github", "p1", "profile.json">>,
     <<".cli-profiles", "github", "g2", "profile.json">>,
     <<".cli-profiles", "config.json">>,
     <<".claude", "CLAUDE.md">>,
     <<"notes.txt">>}

\* the names deleteLocalProfile is called with
DeleteNames == {"p1", "g2", "nothing", ".", "..", "../claude", "../github", "p1/commands",
                "../../.claude", "../../notes.txt"}

\* ensureDirs(): the four directories are created when they do not exist
ensureDirs(t) ==
    mkdirSync(mkdirSync(mkdirSync(mkdirSync(t, BaseDirPath).fs, ProfilesDirPath("claude")).fs,
                        ProfilesDirPath("github")).fs, CacheDirPath).fs

HomeTrees == {ensureDirs(TreeOf(S, "user")) : S \in SUBSET HomeLeaves}

\* deleteLocalProfile(name, options): getConfig(), join(profilesDir, name), existsSync,
\* the prompt (confirm is its answer, or options.force), rmSync
deleteLocalProfile(prov, home, name, confirm) ==
    LET ensured == ensureDirs(home)
        target == joinOnto(ProfilesDirPath(prov), name)
    IN  IF ~Exists(ensured, target) THEN [fs |-> ensured, exit |-> 1]
        ELSE IF ~confirm THEN [fs |-> ensured, exit |-> 0]
        ELSE [fs |-> rmSyncRecursive(ensured, target).fs, exit |-> 0]

InitDelete ==
    /\ provider \in {"claude", "github"}
    /\ sep = "/"
    /\ configDir = NoDir
    /\ profileDir \in HomeTrees
    /\ metadata = NoMeta
    /\ scratchDir = NoDir
    /\ backupDir = NoDir
    /\ pc = "idle"
    /\ call = NoCall
    /\ pre = NoPre
    /\ archive \in {[op |-> "none", name |-> n, exit |-> 0] : n \in DeleteNames}
    /\ pub = NoPub

\* cpm delete <name> [--force]
DeleteLocalProfile(confirm) ==
    /\ archive.op = "none"
    /\ LET r == deleteLocalProfile(provider, profileDir, archive.name, confirm)
       IN  /\ profileDir' = r.fs
           /\ archive' = [op |-> "deleteLocalProfile", name |-> archive.name, exit |-> r.exit]
    /\ pre' = Snapshot
    /\ UNCHANGED <<provider, sep, configDir, metadata, scratchDir, backupDir, pc, call, pub>>

NextDelete == \E confirm \in BOOLEAN : DeleteLocalProfile(confirm)

SpecDelete == InitDelete /\ [][NextDelete]_vars

\* the paths of the home directory a delete removed
Removed == DOMAIN pre.profile \ DOMAIN profileDir

\* C29 (delete is confined to stored profiles): whatever name deleteLocalProfile is
\* given, what it removes is nothing, or one directory that is a direct child of the
\* provider's profiles directory with all beneath it; nothing outside the profiles
\* directory and not the profiles directory itself.
C29_DeleteConfined ==
    archive.op = "deleteLocalProfile" =>
        \/ Removed = {}
        \/ \E child \in Removed :
               /\ Parent(child) = ProfilesDirPath(provider)
               /\ IsDirectory(pre.profile, child)
               /\ \A p \in Removed : IsPrefix(child, p)

-----------------------------------------------------------------------------
(* Properties of a save followed by a load in place (checked under Spec)    *)

\* the profile restored onto the configuration directory is the one createSnapshot
\* (default options) made of that very directory
RestoredInPlace ==
    /\ provider = "claude"
    /\ ExtractSucceeded /\ call.target = "config"
    /\ metadata.origin = "created" /\ ~metadata.includesSecrets
    /\ metadata.from = pre.config

\* C30 (save then load in place is the identity): createSnapshot of a Claude
\* configuration directory D with default options, followed by extractSnapshot of that
\* profile onto D, leaves D with the files and the bytes it had, the files the deny list
\* kept out of the snapshot included.
C30_SaveLoadIdentity ==
    RestoredInPlace =>
        /\ Files(configDir) = Files(pre.config)
        /\ \A p \in Files(pre.config) : configDir[p] = pre.config[p]

====
